---- MODULE Spec2Model ----
(***************************************************************************)
(* Model of the docsign backend: signature position detection              *)
(* (backend/signature_detector.py), PDF compositing (backend/pdf_signer.py)*)
(* and the sign / bulk-sign / detect request handlers (backend/app.py).    *)
(*                                                                         *)
(* Geometry is integer valued: page sizes and bounding boxes are whole     *)
(* points, so every float expression of the source (page_height * 0.6,     *)
(* sig_height / 2, ...) is computed exactly with scaled integers.          *)
(***************************************************************************)
EXTENDS Integers, Sequences, FiniteSets, TLC

\* ---------------------------------------------------------------------------
\* Program constants (signature_detector.py)
\* ---------------------------------------------------------------------------
SIG_WIDTH == 120
SIG_HEIGHT == 40
PADDING == 10
TEXT_HEIGHT == 30
STEP == 15
SEARCH_RANGE == 150
F2F_BOX_WIDTH == 220
F2F_BOX_HEIGHT == 120

\* ---------------------------------------------------------------------------
\* Bounds of the model
\* ---------------------------------------------------------------------------
MaxPages == 2
MaxBatch == 2

\* ---------------------------------------------------------------------------
\* Small helpers
\* ---------------------------------------------------------------------------
Max2(a, b) == IF a >= b THEN a ELSE b
Min2(a, b) == IF a <= b THEN a ELSE b

\* Python range(a, b, s) with s > 0, as a sequence.
RangeUp(a, b, s) ==
  IF a >= b THEN << >>
  ELSE [i \in 1..((b - a + s - 1) \div s) |-> a + (i - 1) * s]

\* Python range(a, b, -s) with s > 0, as a sequence.
RangeDown(a, b, s) ==
  IF a <= b THEN << >>
  ELSE [i \in 1..((a - b + s - 1) \div s) |-> a - (i - 1) * s]

\* The (x, y) pairs visited by "for y in ys: for x in xs:", in visiting order.
Grid(ys, xs) ==
  IF Len(xs) = 0 \/ Len(ys) = 0 THEN << >>
  ELSE [k \in 1..(Len(ys) * Len(xs)) |->
          [x |-> xs[((k - 1) % Len(xs)) + 1],
           y |-> ys[((k - 1) \div Len(xs)) + 1]]]

\* int(v * num / den) for v >= 0 (page_height * 0.6 and the like).
IntFrac(v, num, den) == (v * num) \div den

\* ---------------------------------------------------------------------------
\* Page content.  A page is [width, height, words, lines, rects]; a word is
\* [kind, x0, top, x1, bottom]; lines and rects are [x0, top, x1, bottom].
\* The kind of a word abstracts its text:
\*   "anchor"  - the regex \bsignature\b (IGNORECASE) matches it and its
\*               lower-cased text contains 'signature' ("Signature:")
\*   "partial" - its lower-cased text contains 'signature' but the regex does
\*               not match ("signatures")
\*   "folded"  - the regex matches it by Unicode case folding but its
\*               lower-cased text does not contain 'signature' (a dotted
\*               capital I, a dotless i or a long s in place of the letter)
\*   "plain"   - any other text
\* ---------------------------------------------------------------------------
WordKinds == {"anchor", "partial", "folded", "plain"}

\* SIGNATURE_PATTERN.search(page.extract_text()): the text is the words joined
\* by blanks and newlines, so the pattern matches iff it matches inside a word.
TextMatchesPattern(page) ==
  \E i \in 1..Len(page.words) : page.words[i].kind \in {"anchor", "folded"}

\* 'signature' in word['text'].lower()
WordHasKeyword(w) == w.kind \in {"anchor", "partial"}

\* Obstacle rectangles expanded by PADDING (words, then lines, then rects).
Expand(r) == [x0 |-> r.x0 - PADDING, y0 |-> r.top - PADDING,
              x1 |-> r.x1 + PADDING, y1 |-> r.bottom + PADDING]

OccupiedRects(page) ==
  {Expand(page.words[i]) : i \in 1..Len(page.words)}
    \cup {Expand(page.lines[i]) : i \in 1..Len(page.lines)}
    \cup {Expand(page.rects[i]) : i \in 1..Len(page.rects)}

\* A check of the page bounds only.
is_area_clear_BoundsOnly(page, x, y, width, height) ==
  /\ ~(x < PADDING \/ y < PADDING)
  /\ ~(x + width > page.width - PADDING \/ y + height > page.height - PADDING)

\* is_area_clear of both searches.
is_area_clear(page, x, y, width, height) ==
  /\ ~(x < PADDING \/ y < PADDING)
  /\ ~(x + width > page.width - PADDING \/ y + height > page.height - PADDING)
  /\ \A rect \in OccupiedRects(page) :
        (x + width < rect.x0 \/ x > rect.x1 \/
         y + height < rect.y0 \/ y > rect.y1)

\* is_in_center_area: the centre of the signature lies strictly inside the
\* middle 40% x 50% of the page.  (0.3*pw < x + sw/2 < 0.7*pw, scaled by 10;
\* 0.25*ph < y + sh/2 < 0.75*ph, scaled by 4.)
is_in_center_area(x, y, page_width, page_height, sig_width, sig_height) ==
  /\ 3 * page_width < 10 * x + 5 * sig_width
  /\ 10 * x + 5 * sig_width < 7 * page_width
  /\ page_height < 4 * y + 2 * sig_height
  /\ 4 * y + 2 * sig_height < 3 * page_height

\* First element of a sequence of candidates satisfying P, or "none".
NoPos == [found |-> FALSE, x |-> 0, y |-> 0]
Pos(x, y) == [found |-> TRUE, x |-> x, y |-> y]

FirstClear(page, cands, sig_width, sig_height, skip_center) ==
  LET total_height == sig_height + TEXT_HEIGHT
      ok(c) == /\ is_area_clear(page, c.x, c.y, sig_width, total_height)
               /\ ~(skip_center /\ is_in_center_area(c.x, c.y, page.width,
                                       page.height, sig_width, sig_height))
      hits == {k \in 1..Len(cands) : ok(cands[k])}
  IN IF hits = {} THEN NoPos
     ELSE LET k == CHOOSE k \in hits : \A j \in hits : k <= j
          IN Pos(cands[k].x, cands[k].y)

\* The six scans of find_blank_space_on_page, in the order they are run.
BlankSpaceBands(page, sig_width, sig_height) ==
  LET pw == page.width
      ph == page.height
      total_height == sig_height + TEXT_HEIGHT
      bottom_start_y == IntFrac(ph, 6, 10)
      y_low == ph - total_height - PADDING
      x_hi == pw - sig_width - PADDING
  IN << Grid(RangeDown(y_low, bottom_start_y, STEP),
             RangeUp(PADDING, IntFrac(pw, 5, 10), STEP)),
        Grid(RangeDown(y_low, bottom_start_y, STEP),
             RangeUp(IntFrac(pw, 5, 10), x_hi, STEP)),
        Grid(RangeDown(bottom_start_y, IntFrac(ph, 3, 10), STEP),
             RangeUp(PADDING, IntFrac(pw, 3, 10), STEP)),
        Grid(RangeDown(bottom_start_y, IntFrac(ph, 3, 10), STEP),
             RangeUp(IntFrac(pw, 7, 10), x_hi, STEP)),
        Grid(RangeDown(y_low, PADDING, STEP), RangeUp(PADDING, x_hi, STEP)),
        Grid(RangeDown(y_low, PADDING, STEP), RangeUp(PADDING, x_hi, STEP)) >>

\* find_blank_space_on_page(page, sig_width, sig_height, avoid_center)
find_blank_space_on_page(page, sig_width, sig_height, avoid_center) ==
  LET bands == BlankSpaceBands(page, sig_width, sig_height)
      r1 == FirstClear(page, bands[1], sig_width, sig_height, avoid_center)
      r2 == FirstClear(page, bands[2], sig_width, sig_height, avoid_center)
      r3 == FirstClear(page, bands[3], sig_width, sig_height, avoid_center)
      r4 == FirstClear(page, bands[4], sig_width, sig_height, avoid_center)
      r5 == FirstClear(page, bands[5], sig_width, sig_height, TRUE)
      r6 == FirstClear(page, bands[6], sig_width, sig_height, FALSE)
  IN IF r1.found THEN r1
     ELSE IF r2.found THEN r2
     ELSE IF r3.found THEN r3
     ELSE IF r4.found THEN r4
     ELSE IF r5.found THEN r5
     ELSE r6

\* ---------------------------------------------------------------------------
\* Anchored search: find_blank_space_near_keyword
\* ---------------------------------------------------------------------------

\* l < m * sqrt(c) for naturals l, c and m > 0, without roots and without
\* products beyond 32 bits.
LessThanRootTimes(l, m, c) ==
  LET q == l \div m
      r == l % m
  IN IF q * q >= c THEN FALSE
     ELSE IF (q + 1) * (q + 1) <= c THEN TRUE
     ELSE 2 * q * r * m + r * r < (c - q * q) * m * m

\* l > m * sqrt(c) for naturals l, c and m > 0.
MoreThanRootTimes(l, m, c) ==
  LET q == l \div m
      r == l % m
  IN IF q * q > c THEN TRUE
     ELSE IF (q + 1) * (q + 1) <= c THEN FALSE
     ELSE 2 * q * r * m + r * r > (c - q * q) * m * m

\* sqrt(a) < sqrt(c) + k for naturals a, c and an integer k.
SqrtLess(a, c, k) ==
  IF k = 0 THEN a < c
  ELSE IF k > 0
  THEN LET l == a - c - k * k
       IN l < 0 \/ LessThanRootTimes(l, 2 * k, c)
  ELSE LET r == c - a - k * k
       IN r > 0 /\ MoreThanRootTimes(r, 0 - 2 * k, a)

\* position_score(x, y) = distance - bonus, kept as the squared distance of
\* the signature centre to the keyword corner and the integer bonus.
position_score(page, kw, x, y, sig_width, sig_height) ==
  LET cx == x + sig_width \div 2
      cy == y + sig_height \div 2
      bottom == IF 10 * y > 6 * page.height THEN 200
                ELSE IF 10 * y > 5 * page.height THEN 100 ELSE 0
      left == IF 10 * x < 5 * page.width THEN 50 ELSE 0
      center == IF is_in_center_area(x, y, page.width, page.height,
                                     sig_width, sig_height) THEN 500 ELSE 0
  IN [d2 |-> (cx - kw.x0) * (cx - kw.x0) + (cy - kw.top) * (cy - kw.top),
      bonus |-> bottom + left - center]

\* score(a) < score(b)
ScoreLess(a, b) == SqrtLess(a.d2, b.d2, a.bonus - b.bonus)

\* The candidate list of find_blank_space_near_keyword, in generation order.
KeywordCandidates(page, kw, sig_width, sig_height) ==
  LET total_height == sig_height + TEXT_HEIGHT
      dyDown == RangeUp(0, SEARCH_RANGE + 1, STEP)
      dyUp == RangeUp(0 - SEARCH_RANGE, 0, STEP)
      dxLeft == RangeUp(0 - SEARCH_RANGE, 0, STEP)
      dxRight == RangeUp(0, SEARCH_RANGE + 1, STEP)
      dxAll == RangeUp(0 - SEARCH_RANGE, SEARCH_RANGE + 1, STEP)
      shift(g) == [k \in 1..Len(g) |-> [x |-> kw.x0 + g[k].x, y |-> kw.top + g[k].y]]
      fitsLeft(c) == c.x >= PADDING /\ c.y + total_height <= page.height - PADDING
      fitsRight(c) == /\ c.x + sig_width <= page.width - PADDING
                      /\ c.y + total_height <= page.height - PADDING
  IN << [x |-> kw.x0, y |-> kw.top - total_height - 5],
        [x |-> kw.x1 + 10, y |-> kw.top - sig_height \div 2],
        [x |-> kw.x0, y |-> kw.bottom + 5],
        [x |-> kw.x0 - sig_width - 10, y |-> kw.top - sig_height \div 2] >>
     \o SelectSeq(shift(Grid(dyDown, dxLeft)), fitsLeft)
     \o SelectSeq(shift(Grid(dyDown, dxRight)), fitsRight)
     \o shift(Grid(dyUp, dxAll))

\* A loop that keeps the first candidate it is given.
BestFrom_FirstCandidate(page, kw, cands, k, best, sig_width, sig_height) ==
  IF Len(cands) = 0 THEN best
  ELSE [found |-> TRUE, x |-> cands[1].x, y |-> cands[1].y,
        score |-> position_score(page, kw, cands[1].x, cands[1].y,
                                 sig_width, sig_height)]

\* The loop "if score < best_score: best = candidate" over cands[k..].
RECURSIVE BestFrom(_, _, _, _, _, _, _)
BestFrom(page, kw, cands, k, best, sig_width, sig_height) ==
  IF k > Len(cands) THEN best
  ELSE LET c == cands[k]
           s == position_score(page, kw, c.x, c.y, sig_width, sig_height)
       IN IF ~best.found \/ ScoreLess(s, best.score)
          THEN BestFrom(page, kw, cands, k + 1,
                        [found |-> TRUE, x |-> c.x, y |-> c.y, score |-> s],
                        sig_width, sig_height)
          ELSE BestFrom(page, kw, cands, k + 1, best, sig_width, sig_height)

NoBest == [found |-> FALSE, x |-> 0, y |-> 0, score |-> [d2 |-> 0, bonus |-> 0]]

\* A search that gives up when no candidate is valid.
KeywordFallback_None(page, kw, sig_width, sig_height) == NoPos

\* The overlap-permitting fallback of find_blank_space_near_keyword.
KeywordFallback(page, kw, sig_width, sig_height) ==
  LET total_height == sig_height + TEXT_HEIGHT
      above == kw.top - total_height - 5
      fallback_y == IF above < PADDING THEN kw.bottom + 5 ELSE above
  IN Pos(Max2(PADDING, Min2(kw.x0, page.width - sig_width - PADDING)),
         Max2(PADDING, Min2(fallback_y, page.height - total_height - PADDING)))

\* find_blank_space_near_keyword(page, keyword_word, all_words, w, h)
find_blank_space_near_keyword(page, kw, sig_width, sig_height) ==
  LET total_height == sig_height + TEXT_HEIGHT
      cands == KeywordCandidates(page, kw, sig_width, sig_height)
      clear(c) == is_area_clear(page, c.x, c.y, sig_width, total_height)
      valid == SelectSeq(cands, clear)
      offCenter(c) == ~is_in_center_area(c.x, c.y, page.width, page.height,
                                         sig_width, sig_height)
      first == BestFrom(page, kw, SelectSeq(valid, offCenter), 1, NoBest,
                        sig_width, sig_height)
      second == IF first.found THEN first
                ELSE BestFrom(page, kw, valid, 1, NoBest, sig_width, sig_height)
  IN IF second.found THEN Pos(second.x, second.y)
     ELSE KeywordFallback(page, kw, sig_width, sig_height)

\* ---------------------------------------------------------------------------
\* Page layouts the documents of the model are built from.
\* ---------------------------------------------------------------------------
Word(kind, x0, top, x1, bottom) ==
  [kind |-> kind, x0 |-> x0, top |-> top, x1 |-> x1, bottom |-> bottom]
Box(x0, top, x1, bottom) == [x0 |-> x0, top |-> top, x1 |-> x1, bottom |-> bottom]
Page(width, height, words, lines, rects) ==
  [width |-> width, height |-> height, words |-> words, lines |-> lines,
   rects |-> rects]

\* an empty page
PgBlank == Page(300, 200, << >>, << >>, << >>)
\* a heading, a "Signature:" label near the bottom and a rule under it
PgAnchor == Page(300, 200,
                 << Word("plain", 20, 20, 80, 30), Word("anchor", 20, 150, 70, 160) >>,
                 << Box(20, 165, 200, 165) >>, << >>)
\* a page covered by a drawn frame: no free rectangle anywhere
PgFull == Page(300, 200, << >>, << >>, << Box(0, 0, 300, 200) >>)
\* the same with a "Signature:" label on it
PgFullAnchor == Page(300, 200, << Word("anchor", 20, 150, 70, 160) >>, << >>,
                     << Box(0, 0, 300, 200) >>)
\* the word "signatures" (no whole-word match) before plain text
PgPartial == Page(300, 200,
                  << Word("partial", 20, 40, 90, 50), Word("plain", 100, 40, 150, 50) >>,
                  << >>, << >>)
\* a label-sized page carrying a "Signature:" label
PgTinyAnchor == Page(100, 70, << Word("anchor", 10, 10, 60, 20) >>, << >>, << >>)
\* text in the lower band: the free space is in the upper half
PgTopFree == Page(300, 200, << Word("plain", 10, 110, 290, 190) >>, << >>, << >>)

\* the anchor line of PgAnchor in capitals with a dotted capital I
PgFolded ==
  Page(300, 200,
       << Word("plain", 20, 20, 80, 30), Word("folded", 20, 150, 70, 160) >>,
       << Box(20, 165, 200, 165) >>, << >>)

PageLayouts ==
  {PgBlank, PgAnchor, PgFull, PgFullAnchor, PgPartial, PgTinyAnchor, PgTopFree,
   PgFolded}

Metadata == {"none", "meta"}

\* Page sequences of length 0..n over the layouts.
RECURSIVE PageSeqs(_)
PageSeqs(n) ==
  IF n = 0 THEN {<< >>}
  ELSE LET shorter == PageSeqs(n - 1)
       IN shorter \cup {Append(ps, pg) : ps \in shorter, pg \in PageLayouts}

\* The two searches on the layouts of the model, with the sizes detection
\* passes; they are looked up wherever detection runs a search on a page.
BlankSpaceOn ==
  [page \in PageLayouts |->
     find_blank_space_on_page(page, SIG_WIDTH, SIG_HEIGHT, TRUE)]

\* The keyword word detection uses on a page: the first containing 'signature'.
KeywordWords(page) == {i \in 1..Len(page.words) : WordHasKeyword(page.words[i])}
FirstKeywordWord(page) ==
  page.words[CHOOSE i \in KeywordWords(page) : \A j \in KeywordWords(page) : i <= j]

NearKeywordOn ==
  [page \in {pg \in PageLayouts : KeywordWords(pg) # {}} |->
     find_blank_space_near_keyword(page, FirstKeywordWord(page), SIG_WIDTH, SIG_HEIGHT)]

\* ---------------------------------------------------------------------------
\* detect_all_signature_positions / detect_f2f_signature_position
\* A document file is [readable, pages, metadata, overlays].
\* ---------------------------------------------------------------------------
EmptyDetection == [found |-> FALSE, positions |-> << >>, total_pages |-> 0]

Placement(page_idx, x, y, confidence, method, keyword) ==
  [page |-> page_idx, x |-> x, y |-> y, width |-> SIG_WIDTH, height |-> SIG_HEIGHT,
   confidence |-> confidence, method |-> method, keyword |-> keyword]

\* "Ensure within page bounds" of detect_all_signature_positions.
ClampX(page, x) ==
  Max2(10, IF x + SIG_WIDTH > page.width THEN page.width - SIG_WIDTH - 20 ELSE x)

ClampY(page, y) ==
  IF Max2(10, y) + SIG_HEIGHT + TEXT_HEIGHT > page.height
  THEN page.height - (SIG_HEIGHT + TEXT_HEIGHT) - 20
  ELSE Max2(10, y)

\* page_position of a page whose keyword search gave blank_pos.
ClampedPlacement(page, page_idx, blank_pos) ==
  Placement(page_idx, ClampX(page, blank_pos.x), ClampY(page, blank_pos.y),
            "high", "pdfplumber_blank_space", "signature")

\* The body of the page loop: the placements (none or one) of one page.
KeywordPlacement(page, page_idx) ==
  IF ~TextMatchesPattern(page) THEN << >>
  ELSE IF KeywordWords(page) = {} THEN << >>
  ELSE << ClampedPlacement(page, page_idx, NearKeywordOn[page]) >>

\* Placements of pages 0..n-1, already in ascending page order (the code
\* collects them last page first and sorts by page).
RECURSIVE KeywordPlacements(_, _)
KeywordPlacements(pages, n) ==
  IF n = 0 THEN << >>
  ELSE KeywordPlacements(pages, n - 1) \o KeywordPlacement(pages[n], n - 1)

\* The placements (none or one) a blank-space result gives on page page_idx.
BlankPlacement(page_idx, blank_pos, confidence, method) ==
  IF blank_pos.found
  THEN << Placement(page_idx, blank_pos.x, blank_pos.y, confidence, method, "null") >>
  ELSE << >>

\* The blank-space placement of the last page, as the fallback appends it.
LastPageFallback(pdf) ==
  BlankPlacement(Len(pdf.pages) - 1, BlankSpaceOn[pdf.pages[Len(pdf.pages)]],
                 "low", "blank_space_fallback")

\* result, once positions are collected (sorted by page).
DetectionResult(positions, num_pages) ==
  [found |-> positions # << >>, positions |-> positions, total_pages |-> num_pages]

\* "If no keyword found on any page, fallback to blank space on last page"
OrFallback(positions, pdf) ==
  IF positions # << >> THEN positions ELSE LastPageFallback(pdf)

\* A detection that appends the last-page fallback whether or not a keyword
\* placement was found.
detect_all_signature_positions_AlwaysFallback(pdf) ==
  IF ~pdf.readable THEN EmptyDetection
  ELSE IF Len(pdf.pages) = 0 THEN EmptyDetection
  ELSE DetectionResult(KeywordPlacements(pdf.pages, Len(pdf.pages))
                         \o LastPageFallback(pdf),
                       Len(pdf.pages))

detect_all_signature_positions(pdf) ==
  IF ~pdf.readable THEN EmptyDetection
  ELSE IF Len(pdf.pages) = 0 THEN EmptyDetection
  ELSE DetectionResult(OrFallback(KeywordPlacements(pdf.pages, Len(pdf.pages)), pdf),
                       Len(pdf.pages))

\* The points random.uniform(lo, hi) is sampled at: both ends and the middle.
UniformSamples(lo, hi) == {lo, (lo + hi) \div 2, hi}

\* The (x, y) the random fallback of detect_f2f_signature_position can draw.
F2FRandomFallback(page) ==
  LET x_min == PADDING + 10
      x_max0 == Max2(x_min + 20, page.width \div 2 - F2F_BOX_WIDTH - PADDING)
      y_min == IntFrac(page.height, 6, 10)
      y_max0 == page.height - F2F_BOX_HEIGHT - PADDING - 30
      x_max == IF x_max0 <= x_min THEN x_min + 50 ELSE x_max0
      y_max == IF y_max0 <= y_min THEN y_min + 50 ELSE y_max0
  IN {[x |-> x, y |-> y] : x \in UniformSamples(x_min, x_max),
                            y \in UniformSamples(y_min, y_max)}

\* The results of the F2F detection of a last page whose search gave blank_pos.
F2FResults(last_page, page_idx, blank_pos) ==
  IF blank_pos.found
  THEN {DetectionResult(BlankPlacement(page_idx, blank_pos, "high",
                                       "f2f_last_page_blank_space"),
                        page_idx + 1)}
  ELSE {DetectionResult(<< Placement(page_idx, r.x, r.y, "medium",
                                     "f2f_fallback_bottom_left_random", "null") >>,
                        page_idx + 1)
          : r \in F2FRandomFallback(last_page)}

\* An F2F detection that gives up when the last page has no blank space.
detect_f2f_signature_position_NoFallback(pdf) ==
  IF ~pdf.readable THEN {EmptyDetection}
  ELSE IF Len(pdf.pages) = 0 THEN {EmptyDetection}
  ELSE {DetectionResult(BlankPlacement(Len(pdf.pages) - 1,
                                       BlankSpaceOn[pdf.pages[Len(pdf.pages)]],
                                       "high", "f2f_last_page_blank_space"),
                        Len(pdf.pages))}

\* The set of results detect_f2f_signature_position can return for a file.
detect_f2f_signature_position(pdf) ==
  IF ~pdf.readable THEN {EmptyDetection}
  ELSE IF Len(pdf.pages) = 0 THEN {EmptyDetection}
  ELSE F2FResults(pdf.pages[Len(pdf.pages)], Len(pdf.pages) - 1,
                  BlankSpaceOn[pdf.pages[Len(pdf.pages)]])

\* ---------------------------------------------------------------------------
\* PDF compositing (pdf_signer.py).
\* A stored PDF is [readable, pages, metadata, overlays]: overlays[i] is the
\* sequence of overlays merged into page i (1-based), in merge order.
\* A position is [page, x, y, width, height]; page is 0-based.
\* ---------------------------------------------------------------------------
NoOverlays(pages) == [i \in 1..Len(pages) |-> << >>]

Upload(readable, pages, metadata) ==
  [readable |-> readable, pages |-> pages, metadata |-> metadata,
   overlays |-> NoOverlays(pages)]

Position(page, x, y, width, height) ==
  [page |-> page, x |-> x, y |-> y, width |-> width, height |-> height]

Raise(error) == [ok |-> FALSE, error |-> error, pdf |-> Upload(FALSE, << >>, "none")]
Return(pdf) == [ok |-> TRUE, error |-> "", pdf |-> pdf]

\* A merge that stamps the overlay on every page.
MergeOverlay_AllPages(pdf, page_num, overlay) ==
  [i \in 1..Len(pdf.pages) |-> Append(pdf.overlays[i], overlay)]

\* "for i, page in enumerate(reader.pages): if i == page_num: merge_page":
\* the overlay lands on the page whose 0-based index equals page_num, if any.
MergeOverlay(pdf, page_num, overlay) ==
  [i \in 1..Len(pdf.pages) |->
     IF i - 1 = page_num THEN Append(pdf.overlays[i], overlay) ELSE pdf.overlays[i]]

\* reader.pages[page_num] of PyPDF2: negative indices count from the end.
PageIndexOk(pdf, page_num) ==
  page_num < Len(pdf.pages) /\ page_num >= 0 - Len(pdf.pages)

\* Python floats are modelled as exact fractions [n, d] in lowest terms, d > 0.
RECURSIVE Gcd(_, _)
Gcd(a, b) == IF b = 0 THEN a ELSE Gcd(b, a % b)
Abs(a) == IF a < 0 THEN 0 - a ELSE a
Frac(n, d) ==
  LET g == Gcd(Abs(n), Abs(d))
  IN IF d < 0 THEN [n |-> (0 - n) \div g, d |-> (0 - d) \div g]
     ELSE [n |-> n \div g, d |-> d \div g]
Float(i) == [n |-> i, d |-> 1]
FSub(a, b) == Frac(a.n * b.d - b.n * a.d, a.d * b.d)
FAdd(a, b) == Frac(a.n * b.d + b.n * a.d, a.d * b.d)
FLeq(a, b) == a.n * b.d <= b.n * a.d
FLess(a, b) == a.n * b.d < b.n * a.d
FMin(a, b) == IF FLeq(a, b) THEN a ELSE b
FMax(a, b) == IF FLeq(b, a) THEN a ELSE b

\* Image.open(io.BytesIO(signature_data)): the intrinsic size of the artwork.
ImageOpen(signature_data) ==
  CASE signature_data = "artwork" -> [width |-> 300, height |-> 100]
    [] signature_data = "other artwork" -> [width |-> 120, height |-> 40]
    [] signature_data = "tall artwork" -> [width |-> 50, height |-> 150]
    [] OTHER -> [width |-> 70, height |-> 70]

\* A drawn size that stretches the image to the requested box.
ScaledSize_Stretched(sig_image, sig_width, sig_height) ==
  [width |-> Float(sig_width), height |-> Float(sig_height)]

\* "Scale signature if needed (maintain aspect ratio)": the drawn size.
\* aspect = iw / ih; w / h > aspect is w * ih > h * iw for positive sizes.
ScaledSize(sig_image, sig_width, sig_height) ==
  IF sig_width # sig_image.width \/ sig_height # sig_image.height
  THEN IF sig_width * sig_image.height > sig_height * sig_image.width
       THEN [width |-> Frac(sig_height * sig_image.width, sig_image.height),
             height |-> Float(sig_height)]
       ELSE [width |-> Float(sig_width),
             height |-> Frac(sig_width * sig_image.height, sig_image.width)]
  ELSE [width |-> Float(sig_width), height |-> Float(sig_height)]

\* text_height = 30 if signer_name else 0
ReservedMargin(signer_name) == IF signer_name # "" THEN 30 ELSE 0

\* The rectangle drawImage is given: x, y from the bottom-left corner.
\* A variant that converts the origin but does not clamp.
RenderBox_Unclamped(page, position, size, text_height) ==
  [x |-> Float(position.x),
   y |-> FSub(FSub(Float(page.height), Float(position.y)), size.height),
   width |-> size.width, height |-> size.height]

RenderBox(page, position, size, text_height) ==
  [x |-> FMax(Float(0), FMin(Float(position.x), FSub(Float(page.width), size.width))),
   y |-> FMax(Float(text_height),
              FMin(FSub(FSub(Float(page.height), Float(position.y)), size.height),
                   FSub(Float(page.height), size.height))),
   width |-> size.width, height |-> size.height]

StandardOverlay(page, signature_data, position, signer_name) ==
  [mode |-> "standard", artwork |-> signature_data, position |-> position,
   signer_name |-> signer_name,
   drawn |-> RenderBox(page, position,
                       ScaledSize(ImageOpen(signature_data), position.width,
                                  position.height),
                       ReservedMargin(signer_name))]

\* The constants of draw_signature_with_text.
font_size == 7
text_line_height == 9

\* The width drawString gives a line at font_size: the Helvetica advance
\* widths of its characters (Helvetica-Bold for the signer name), in points.
\* Every "Date: %Y-%m-%d %H:%M:%S" has the same width, digits being equally
\* wide.
StringWidth(text) ==
  CASE text = "Digitally signed by" -> Frac(8058 * font_size, 1000)
    [] text = "Date: %Y-%m-%d %H:%M:%S" -> Frac(11952 * font_size, 1000)
    [] text = "dr" -> Frac(1000 * font_size, 1000)
    [] text = "Dr. Bartholomew Montgomery-Fitzgerald" -> Frac(19335 * font_size, 1000)

\* The extent of a Helvetica line above and below its baseline at font_size.
FontAscent == Frac(718 * font_size, 1000)
FontDescent == Frac(207 * font_size, 1000)

\* draw_signature_with_text: the image at (x, y) and, with a signer name, the
\* three lines below it, each starting at x on its baseline y.
draw_signature_with_text(x, y, sig_width, sig_height, signer_name) ==
  [image |-> [x |-> x, y |-> y, width |-> sig_width, height |-> sig_height],
   lines |-> IF signer_name = "" THEN << >>
             ELSE LET texts == << "Digitally signed by", signer_name,
                                  "Date: %Y-%m-%d %H:%M:%S" >>
                  IN [k \in 1..3 |->
                        [text |-> texts[k], x |-> x,
                         y |-> FSub(y, Float(k * text_line_height)),
                         width |-> StringWidth(texts[k])]]]

\* The constants of draw_f2f_signature_with_textbox.
qr_size == 50
qr_margin == 10
box_padding == 8
title_font_size == 10
line_height == 11
title_height == 18
info_lines == 5

\* "Ensure space for text box below signature": the (x, y) handed to
\* draw_f2f_signature_with_textbox; text_box_height = (4 * 11) + 10.
F2FAnchor(page, position) ==
  [x |-> Max2(10, Min2(position.x,
                       page.width - Max2(position.width, 150) - 10)),
   y |-> Max2((4 * 11) + 10 + 10,
              Min2(page.height - position.y - position.height,
                   page.height - position.height - 10))]

\* What draw_f2f_signature_with_textbox draws for (x, y, sig_width, sig_height):
\* the box, the image, the QR glyph (rectangles from their bottom-left corner)
\* and the baselines of the title and of the five information lines.
F2FDrawing(x, y, sig_width, sig_height) ==
  LET text_area_width == Max2(sig_width + 40, 220)
      total_box_height == title_height + (sig_height + 8)
                            + (info_lines * line_height + 8) + (box_padding * 2)
      box_y == y - total_box_height + sig_height
      title_y == y + sig_height - box_padding - title_font_size
      sig_y == title_y - sig_height - 5
  IN [box |-> [x |-> x, y |-> box_y,
               width |-> text_area_width + qr_size + qr_margin,
               height |-> total_box_height],
      image |-> [x |-> x + box_padding, y |-> sig_y,
                 width |-> sig_width, height |-> sig_height],
      glyph |-> [x |-> Float(x + text_area_width),
                 y |-> FAdd(Float(box_y), Frac(total_box_height - qr_size, 2)),
                 width |-> Float(qr_size), height |-> Float(qr_size)],
      text_x |-> x + box_padding,
      baselines |-> << title_y >>
                      \o [k \in 1..info_lines |-> sig_y - 12 - (k - 1) * line_height]]

F2FOverlay(page, signature_data, position, signer_name) ==
  [mode |-> "f2f", artwork |-> signature_data, position |-> position,
   signer_name |-> signer_name,
   drawn |-> F2FDrawing(F2FAnchor(page, position).x, F2FAnchor(page, position).y,
                        position.width, position.height)]

\* The rectangle a step of add_multiple_signatures draws: the requested size
\* unscaled, x as given, y raised to the text height only.
MultiBox(page, position, text_height) ==
  [x |-> Float(position.x),
   y |-> FMax(Float(text_height),
              Float(page.height - position.y - position.height)),
   width |-> Float(position.width), height |-> Float(position.height)]

MultiOverlay(page, signature_data, position, signer_name) ==
  [mode |-> "standard", artwork |-> signature_data, position |-> position,
   signer_name |-> signer_name,
   drawn |-> MultiBox(page, position, ReservedMargin(signer_name))]

\* add_signature_to_pdf: the bytes written to output_path, or the exception.
\* A negative page index passes the bounds test and reader.pages[page_num].
add_signature_to_pdf(pdf, signature_data, position, signer_name) ==
  IF ~pdf.readable THEN Raise("PdfReadError")
  ELSE IF position.page >= Len(pdf.pages) THEN Raise("Page does not exist")
  ELSE IF ~PageIndexOk(pdf, position.page) THEN Raise("IndexError")
  ELSE Return([readable |-> TRUE, pages |-> pdf.pages, metadata |-> pdf.metadata,
               overlays |-> MergeOverlay(pdf, position.page,
                              StandardOverlay(pdf.pages[(position.page % Len(pdf.pages)) + 1],
                                              signature_data, position, signer_name))])

\* An F2F compositor that draws on the page the position names.
add_f2f_signature_to_pdf_AtRequestedPage(pdf, signature_data, position, signer_name) ==
  IF ~pdf.readable THEN Raise("PdfReadError")
  ELSE IF ~PageIndexOk(pdf, position.page) THEN Raise("IndexError")
  ELSE Return([readable |-> TRUE, pages |-> pdf.pages, metadata |-> pdf.metadata,
               overlays |-> MergeOverlay(pdf, position.page,
                                         F2FOverlay(pdf.pages[Len(pdf.pages)],
                                                    signature_data, position,
                                                    signer_name))])

\* add_f2f_signature_to_pdf: always the last page, whatever position.page is.
add_f2f_signature_to_pdf(pdf, signature_data, position, signer_name) ==
  IF ~pdf.readable THEN Raise("PdfReadError")
  ELSE IF Len(pdf.pages) = 0 THEN Raise("IndexError")
  ELSE Return([readable |-> TRUE, pages |-> pdf.pages, metadata |-> pdf.metadata,
               overlays |-> MergeOverlay(pdf, Len(pdf.pages) - 1,
                                         F2FOverlay(pdf.pages[Len(pdf.pages)],
                                                    signature_data, position,
                                                    signer_name))])

\* The loop of add_multiple_signatures from entry k on; current is the PDF as
\* re-serialised by the previous entry.  The writer of a step gets the pages
\* only: the metadata of the source is not copied.
RECURSIVE MultiFrom(_, _, _, _, _)
MultiFrom(current, signature_data, positions, k, signer_name) ==
  IF k > Len(positions) THEN Return(current)
  ELSE IF ~current.readable THEN Raise("PdfReadError")
  ELSE IF ~PageIndexOk(current, positions[k].page) THEN Raise("IndexError")
  ELSE MultiFrom([readable |-> TRUE, pages |-> current.pages, metadata |-> "none",
                  overlays |-> MergeOverlay(current, positions[k].page,
                                  MultiOverlay(current.pages[(positions[k].page
                                                              % Len(current.pages)) + 1],
                                               signature_data, positions[k],
                                               signer_name))],
                 signature_data, positions, k + 1, signer_name)

add_multiple_signatures(pdf, signature_data, positions, signer_name) ==
  MultiFrom(pdf, signature_data, positions, 1, signer_name)

\* ---------------------------------------------------------------------------
\* Application state (models.py, app.py)
\* ---------------------------------------------------------------------------
VARIABLES
  documents,     \* the documents table: documents[id] is the Document row
  signatures,    \* the signatures table and the artwork behind encrypted_path
  uploads,       \* UPLOAD_FOLDER: uploads[original_path] is the uploaded PDF
  signed_files,  \* SIGNED_FOLDER: signed_files[signed_path] is the written PDF
  response,      \* the response of the last request
  sessions       \* db.session of the requests served by concurrent workers

vars == << documents, signatures, uploads, signed_files, response, sessions >>

\* The users of the model: the default admin and one doctor.
Users == {"admin", "dr"}
\* User.role
Role(u) == IF u = "admin" THEN "admin" ELSE "doctor"
\* The users who send signature and sign requests.
Signers == {"dr"}

DocumentTypes == {"f2f", "general"}
MaxDocs == 2

\* hashlib.sha256(data).hexdigest() on the artworks of the model
Artworks == {"artwork", "other artwork"}
\* The artwork an upload of the model carries.
UploadedArtworks == {"artwork"}
Sha256(data) == IF data = "artwork" THEN "9f2c" ELSE "41d7"

\* The signer_name field of the signature form: left empty, or a full name.
FormNames == {"", "Dr. Bartholomew Montgomery-Fitzgerald"}

NoSignature == [present |-> FALSE, file_hash |-> "", data |-> "", signer_name |-> ""]

\* Document(filename, original_path, document_type, status='pending')
NewDocument(path, dtype, u) ==
  [original_path |-> path, document_type |-> dtype, uploaded_by |-> u,
   status |-> "pending", signed_path |-> 0, signed_by |-> "null",
   signed_at |-> 0, signature_position |-> << >>]

NoResults == [successful |-> << >>, failed |-> << >>]
\* A response, with the request it answers: user, request (the document ids
\* named, in order) and placement (the position fields of a sign request).
NoPlacement == [position |-> << >>, positions |-> << >>]
Response(op, code, error) ==
  [op |-> op, code |-> code, error |-> error, results |-> NoResults, log |-> << >>,
   user |-> "", request |-> << >>, placement |-> NoPlacement,
   num_signatures |-> 0, detections |-> << >>,
   entries |-> << >>, auto_mode |-> FALSE]

\* The files a document upload can carry in the full application model.
UploadForms ==
  { [file |-> Upload(TRUE, << PgAnchor, PgBlank >>, "meta"), dtype |-> "general"],
    [file |-> Upload(TRUE, << PgFull >>, "none"), dtype |-> "general"],
    [file |-> Upload(TRUE, << PgAnchor >>, "meta"), dtype |-> "f2f"],
    [file |-> Upload(TRUE, << PgBlank, PgAnchor >>, "none"), dtype |-> "f2f"],
    [file |-> Upload(FALSE, << >>, "none"), dtype |-> "f2f"] }

\* The positions a sign request can carry.
P0 == Position(0, 20, 60, 120, 40)
P1 == Position(1, 150, 100, 120, 40)

\* (position, positions) of a request: position is << >> when absent.
Placements ==
  { [position |-> << >>, positions |-> << >>],
    [position |-> << P0 >>, positions |-> << >>],
    [position |-> << P1 >>, positions |-> << >>],
    [position |-> << >>, positions |-> << P0, P1 >>] }

\* The workers that serve requests concurrently (app.run serves each request
\* on a thread of its own), and the session of a worker that serves none.
Workers == {"w1", "w2"}

NoSession ==
  [pc |-> "idle", user |-> "", entries |-> << >>, documents |-> << >>,
   dirty |-> {}, results |-> NoResults, log |-> << >>]

Init ==
  /\ documents = << >>
  /\ signatures = [u \in Signers |-> NoSignature]
  /\ uploads = << >>
  /\ signed_files = << >>
  /\ response = Response("none", 0, "")   \* no request served yet
  /\ sessions = [w \in Workers |-> NoSession]

\* upload_document: admin only; saves the file and adds a pending row.
upload_document(u, file, dtype) ==
  /\ Len(documents) < MaxDocs
  /\ IF Role(u) # "admin"
     THEN /\ response' = Response("upload", 403, "Insufficient permissions")
          /\ UNCHANGED << documents, uploads >>
     ELSE /\ uploads' = Append(uploads, file)
          /\ documents' = Append(documents, NewDocument(Len(uploads) + 1, dtype, u))
          /\ response' = Response("upload", 201, "")
  /\ UNCHANGED << signatures, signed_files, sessions >>

\* upload_signature: stores the processed artwork and its SHA-256.
upload_signature(u, data, form_name) ==
  /\ signatures' = [signatures EXCEPT ![u] =
        [present |-> TRUE, file_hash |-> Sha256(data), data |-> data,
         signer_name |-> IF form_name = "" THEN u ELSE form_name]]
  /\ response' = Response("upload_signature", 201, "")
  /\ UNCHANGED << documents, uploads, signed_files, sessions >>

\* The file behind encrypted_path is replaced on disk (what decrypt_file
\* reads is whatever the file holds): the artwork no longer matches file_hash.
ReplaceArtwork(u) ==
  /\ signatures[u].present
  /\ \E data \in Artworks :
       /\ data # signatures[u].data
       /\ signatures' = [signatures EXCEPT ![u].data = data]
  /\ UNCHANGED << documents, uploads, signed_files, response, sessions >>

\* ---------------------------------------------------------------------------
\* sign_document (app.py)
\* ---------------------------------------------------------------------------

\* Whether the name uuid is bound where sign_document builds the signed file
\* name.  The "import uuid" in its F2F branch makes uuid a local variable of
\* the whole function, so the earlier uuid.uuid4() reads an unbound local.
UuidBoundInSignDocument == FALSE

\* An integrity check that accepts whatever the file holds.
IntegrityOk_Skipped(signature) == TRUE

\* hashlib.sha256(signature_data).hexdigest() == signature.file_hash
IntegrityOk(signature) == Sha256(signature.data) = signature.file_hash

\* signature.signer_name or current_user.name
SignerName(sig, u) == IF sig.signer_name # "" THEN sig.signer_name ELSE u

\* The compositing call of sign_document for a request (position, positions).
SignCompose(document, pdf, signature_data, req, signer_name) ==
  IF document.document_type = "f2f"
  THEN add_f2f_signature_to_pdf(
         pdf, signature_data,
         IF req.positions # << >> THEN req.positions[1] ELSE req.position[1],
         signer_name)
  ELSE IF req.positions # << >>
  THEN add_multiple_signatures(pdf, signature_data, req.positions, signer_name)
  ELSE add_signature_to_pdf(pdf, signature_data, req.position[1], signer_name)

SignNumSignatures(document, req) ==
  IF document.document_type = "f2f" THEN 1
  ELSE IF req.positions # << >> THEN Len(req.positions) ELSE 1

\* The Document row after a successful signing.
\* A record update that marks the row signed without the path of the file.
Signed_WithoutPath(document, path, u, at, position) ==
  [document EXCEPT !.signed_by = u, !.signed_at = at,
                   !.signature_position = position, !.status = "signed"]

Signed(document, path, u, at, position) ==
  [document EXCEPT !.signed_path = path, !.signed_by = u, !.signed_at = at,
                   !.signature_position = position, !.status = "signed"]

sign_document(u, doc_id, req) ==
  /\ UNCHANGED << signatures, uploads, sessions >>
  /\ LET answer(code, error) ==
           [Response("sign", code, error) EXCEPT
              !.user = u, !.request = << doc_id >>, !.placement = req]
         reject(code, error) ==
           /\ response' = answer(code, error)
           /\ UNCHANGED << documents, signed_files >>
     IN IF doc_id \notin DOMAIN documents THEN reject(404, "Not found")
        ELSE LET document == documents[doc_id]
                 signature == signatures[u]
             IN IF document.status = "signed"
                THEN reject(400, "Document already signed")
                ELSE IF ~signature.present THEN reject(400, "No signature found")
                ELSE IF req.position = << >> /\ req.positions = << >>
                THEN reject(400, "Signature position required")
                ELSE IF ~IntegrityOk(signature)
                THEN reject(500, "Signature integrity check failed")
                ELSE IF ~UuidBoundInSignDocument
                THEN reject(500, "Failed to sign document")
                ELSE LET out == SignCompose(document, uploads[document.original_path],
                                            signature.data, req,
                                            SignerName(signature, u))
                         signed_path == Len(signed_files) + 1
                     IN IF ~out.ok THEN reject(500, "Failed to sign document")
                        ELSE /\ signed_files' = Append(signed_files, out.pdf)
                             /\ documents' = [documents EXCEPT ![doc_id] =
                                  Signed(document, signed_path, u, signed_path,
                                         IF req.positions # << >> THEN req.positions
                                         ELSE req.position)]
                             /\ response' = [answer(200, "") EXCEPT
                                  !.num_signatures = SignNumSignatures(document, req)]

\* ---------------------------------------------------------------------------
\* bulk_sign_documents (app.py)
\* The loop state is [documents, signed_files, results, log]; log records, in
\* request order, the list each entry was appended to.
\* ---------------------------------------------------------------------------
Failed(st, id, error) ==
  [st EXCEPT !.results.failed = Append(@, [id |-> id, error |-> error]),
             !.log = Append(@, [id |-> id, list |-> "failed", error |-> error])]

\* The compositing call of bulk_sign_documents for the positions of an entry.
BulkCompose(is_f2f, pdf, signature_data, positions, signer_name) ==
  IF is_f2f
  THEN add_f2f_signature_to_pdf(pdf, signature_data, positions[1], signer_name)
  ELSE IF Len(positions) > 1
  THEN add_multiple_signatures(pdf, signature_data, positions, signer_name)
  ELSE add_signature_to_pdf(pdf, signature_data, positions[1], signer_name)

\* A loop body whose compositor leaves the bytes it had written when it fails.
SignEntry_KeepsPartialFile(st, doc_id, position, given, u, signature) ==
  LET document == st.documents[doc_id]
      is_f2f == document.document_type = "f2f"
      positions == IF position # << >> /\ given = << >> THEN position ELSE given
  IN IF positions = << >> THEN Failed(st, doc_id, "No positions provided")
     ELSE LET pdf == uploads[document.original_path]
              out == BulkCompose(is_f2f, pdf, signature.data, positions,
                                 SignerName(signature, u))
              signed_path == Len(st.signed_files) + 1
          IN IF ~out.ok
             THEN [Failed(st, doc_id, out.error) EXCEPT
                     !.signed_files = Append(@, pdf)]
             ELSE [documents |-> [st.documents EXCEPT ![doc_id] =
                       Signed(document, signed_path, u, signed_path, positions)],
                   signed_files |-> Append(st.signed_files, out.pdf),
                   results |-> [st.results EXCEPT !.successful = Append(@,
                       [id |-> doc_id,
                        num_signatures |-> IF is_f2f THEN 1 ELSE Len(positions),
                        is_f2f |-> is_f2f])],
                   log |-> Append(st.log, [id |-> doc_id, list |-> "successful",
                                           error |-> ""])]

\* From "Handle backward compatibility" to the end of the loop body.
SignEntry(st, doc_id, position, given, u, signature) ==
  LET document == st.documents[doc_id]
      is_f2f == document.document_type = "f2f"
      positions == IF position # << >> /\ given = << >> THEN position ELSE given
  IN IF positions = << >> THEN Failed(st, doc_id, "No positions provided")
     ELSE LET out == BulkCompose(is_f2f, uploads[document.original_path],
                                 signature.data, positions,
                                 SignerName(signature, u))
              signed_path == Len(st.signed_files) + 1
          IN IF ~out.ok THEN Failed(st, doc_id, out.error)
             ELSE [documents |-> [st.documents EXCEPT ![doc_id] =
                       Signed(document, signed_path, u, signed_path, positions)],
                   signed_files |-> Append(st.signed_files, out.pdf),
                   results |-> [st.results EXCEPT !.successful = Append(@,
                       [id |-> doc_id,
                        num_signatures |-> IF is_f2f THEN 1 ELSE Len(positions),
                        is_f2f |-> is_f2f])],
                   log |-> Append(st.log, [id |-> doc_id, list |-> "successful",
                                           error |-> ""])]

\* A loop body without the check of document.status.
ProcessEntry_NoStatusCheck(st, doc_info, u, auto_mode, signature) ==
  IF doc_info.id \notin DOMAIN st.documents
  THEN {Failed(st, doc_info.id, "Document not found")}
  ELSE LET document == st.documents[doc_info.id]
           pdf == uploads[document.original_path]
       IN IF doc_info.positions = << >> /\ doc_info.position = << >> /\ auto_mode
          THEN LET detections == IF document.document_type = "f2f"
                                 THEN detect_f2f_signature_position(pdf)
                                 ELSE {detect_all_signature_positions(pdf)}
               IN { IF d.found /\ d.positions # << >>
                    THEN SignEntry(st, doc_info.id, doc_info.position, d.positions,
                                   u, signature)
                    ELSE Failed(st, doc_info.id, "Could not detect signature positions")
                    : d \in detections }
          ELSE {SignEntry(st, doc_info.id, doc_info.position, doc_info.positions,
                          u, signature)}

\* A loop body that detects for every entry without a position, whatever
\* auto_mode is.
ProcessEntry_IgnoresAutoMode(st, doc_info, u, auto_mode, signature) ==
  IF doc_info.id \notin DOMAIN st.documents
  THEN {Failed(st, doc_info.id, "Document not found")}
  ELSE LET document == st.documents[doc_info.id]
           pdf == uploads[document.original_path]
       IN IF document.status = "signed"
          THEN {Failed(st, doc_info.id, "Already signed")}
          ELSE IF doc_info.positions = << >> /\ doc_info.position = << >>
          THEN LET detections == IF document.document_type = "f2f"
                                 THEN detect_f2f_signature_position(pdf)
                                 ELSE {detect_all_signature_positions(pdf)}
               IN { IF d.found /\ d.positions # << >>
                    THEN SignEntry(st, doc_info.id, doc_info.position, d.positions,
                                   u, signature)
                    ELSE Failed(st, doc_info.id, "Could not detect signature positions")
                    : d \in detections }
          ELSE {SignEntry(st, doc_info.id, doc_info.position, doc_info.positions,
                          u, signature)}

\* One pass of the loop body: the loop states it can end in.
ProcessEntry(st, doc_info, u, auto_mode, signature) ==
  IF doc_info.id \notin DOMAIN st.documents
  THEN {Failed(st, doc_info.id, "Document not found")}
  ELSE LET document == st.documents[doc_info.id]
           pdf == uploads[document.original_path]
       IN IF document.status = "signed"
          THEN {Failed(st, doc_info.id, "Already signed")}
          ELSE IF doc_info.positions = << >> /\ doc_info.position = << >> /\ auto_mode
          THEN LET detections == IF document.document_type = "f2f"
                                 THEN detect_f2f_signature_position(pdf)
                                 ELSE {detect_all_signature_positions(pdf)}
               IN { IF d.found /\ d.positions # << >>
                    THEN SignEntry(st, doc_info.id, doc_info.position, d.positions,
                                   u, signature)
                    ELSE Failed(st, doc_info.id, "Could not detect signature positions")
                    : d \in detections }
          ELSE {SignEntry(st, doc_info.id, doc_info.position, doc_info.positions,
                          u, signature)}

\* A loop that ends at the first entry it appends to the failed list.
RECURSIVE BulkLoop_StopOnFailure(_, _, _, _, _, _)
BulkLoop_StopOnFailure(st, documents_to_sign, k, u, auto_mode, signature) ==
  IF k > Len(documents_to_sign) THEN {st}
  ELSE UNION { IF Len(st2.results.failed) > Len(st.results.failed) THEN {st2}
               ELSE BulkLoop_StopOnFailure(st2, documents_to_sign, k + 1, u,
                                           auto_mode, signature)
                 : st2 \in ProcessEntry(st, documents_to_sign[k], u, auto_mode,
                                        signature) }

RECURSIVE BulkLoop(_, _, _, _, _, _)
BulkLoop(st, documents_to_sign, k, u, auto_mode, signature) ==
  IF k > Len(documents_to_sign) THEN {st}
  ELSE UNION { BulkLoop(st2, documents_to_sign, k + 1, u, auto_mode, signature)
                 : st2 \in ProcessEntry(st, documents_to_sign[k], u, auto_mode,
                                        signature) }

\* The ids of the entries of a request, in request order.
RequestedIds(documents_to_sign) ==
  [k \in 1..Len(documents_to_sign) |-> documents_to_sign[k].id]

bulk_sign_documents(u, documents_to_sign, auto_mode) ==
  /\ UNCHANGED << signatures, uploads, sessions >>
  /\ LET signature == signatures[u]
         reject(code, error) ==
           /\ response' = [Response("bulk_sign", code, error) EXCEPT
                             !.user = u,
                             !.request = RequestedIds(documents_to_sign),
                             !.entries = documents_to_sign,
                             !.auto_mode = auto_mode]
           /\ UNCHANGED << documents, signed_files >>
     IN IF documents_to_sign = << >> THEN reject(400, "No documents provided")
        ELSE IF ~signature.present THEN reject(400, "No signature found")
        ELSE IF ~IntegrityOk(signature)
        THEN reject(500, "Signature integrity check failed")
        ELSE \E st \in BulkLoop([documents |-> documents, signed_files |-> signed_files,
                                 results |-> NoResults, log |-> << >>],
                                documents_to_sign, 1, u, auto_mode, signature) :
               /\ documents' = st.documents
               /\ signed_files' = st.signed_files
               /\ response' = [Response("bulk_sign", 200, "") EXCEPT
                                 !.results = st.results, !.log = st.log,
                                 !.user = u,
                                 !.request = RequestedIds(documents_to_sign),
                                 !.entries = documents_to_sign,
                                 !.auto_mode = auto_mode]

\* ---------------------------------------------------------------------------
\* Detection handlers (app.py)
\* ---------------------------------------------------------------------------
DetectFor(document) ==
  IF document.document_type = "f2f"
  THEN detect_f2f_signature_position(uploads[document.original_path])
  ELSE {detect_all_signature_positions(uploads[document.original_path])}

Detected(d, doc_id, is_f2f) ==
  [document_id |-> doc_id, is_f2f |-> is_f2f, found |-> d.found,
   positions |-> d.positions, total_pages |-> d.total_pages]

\* A detection handler that leaves the source file truncated.
detect_document_signature_position_TruncatesSource(doc_id) ==
  /\ UNCHANGED << documents, signatures, signed_files, sessions >>
  /\ IF doc_id \notin DOMAIN documents
     THEN response' = Response("detect", 404, "Not found") /\ uploads' = uploads
     ELSE /\ uploads' = [uploads EXCEPT ![documents[doc_id].original_path] =
                           Upload(FALSE, << >>, "none")]
          /\ \E d \in DetectFor(documents[doc_id]) :
               response' = [Response("detect", 200, "") EXCEPT !.detections =
                              << Detected(d, doc_id,
                                          documents[doc_id].document_type = "f2f") >>]

detect_document_signature_position(doc_id) ==
  /\ UNCHANGED << documents, signatures, uploads, signed_files, sessions >>
  /\ IF doc_id \notin DOMAIN documents
     THEN response' = Response("detect", 404, "Not found")
     ELSE \E d \in DetectFor(documents[doc_id]) :
            response' = [Response("detect", 200, "") EXCEPT !.detections =
                           << Detected(d, doc_id,
                                       documents[doc_id].document_type = "f2f") >>]

\* The detections list of bulk_detect_signature_positions from entry k on.
RECURSIVE BulkDetectFrom(_, _)
BulkDetectFrom(document_ids, k) ==
  IF k > Len(document_ids) THEN {<< >>}
  ELSE LET doc_id == document_ids[k]
           rest == BulkDetectFrom(document_ids, k + 1)
       IN IF doc_id \in DOMAIN documents /\ documents[doc_id].status = "pending"
          THEN { << Detected(d, doc_id, documents[doc_id].document_type = "f2f") >> \o r
                   : d \in DetectFor(documents[doc_id]), r \in rest }
          ELSE rest

bulk_detect_signature_positions(document_ids) ==
  /\ UNCHANGED << documents, signatures, uploads, signed_files, sessions >>
  /\ IF document_ids = << >>
     THEN response' = Response("bulk_detect", 400, "No document IDs provided")
     ELSE \E ds \in BulkDetectFrom(document_ids, 1) :
            response' = [Response("bulk_detect", 200, "") EXCEPT !.detections = ds]

\* download_signed_document: serves signed_path of a signed document.
download_signed_document(doc_id) ==
  /\ UNCHANGED << documents, signatures, uploads, signed_files, sessions >>
  /\ response' =
       [(IF doc_id \notin DOMAIN documents THEN Response("download", 404, "Not found")
         ELSE IF documents[doc_id].status # "signed" \/ documents[doc_id].signed_path = 0
         THEN Response("download", 400, "Document not signed yet")
         ELSE Response("download", 200, ""))
        EXCEPT !.request = << doc_id >>]

\* ---------------------------------------------------------------------------
\* Requests and the next-state relation
\* ---------------------------------------------------------------------------
\* Ids a request can name: every stored document and one that does not exist.
RequestIds == 1..(Len(documents) + 1)

\* The placements tried with an id: all of them for a stored document, one for
\* the id that does not exist (the handlers reject it before reading them).
PlacementsFor(id) ==
  IF id \in DOMAIN documents THEN Placements
  ELSE {[position |-> << P0 >>, positions |-> << >>]}

Entries == {[id |-> e[1], position |-> e[2].position, positions |-> e[2].positions]
              : e \in UNION {{<< id, pl >> : pl \in PlacementsFor(id)}
                               : id \in RequestIds}}

\* The values of auto_mode tried with a batch: both when an entry carries no
\* position (the only entries that read it), FALSE otherwise.
AutoModes(batch) ==
  IF \E k \in DOMAIN batch : batch[k].position = << >> /\ batch[k].positions = << >>
  THEN BOOLEAN ELSE {FALSE}

RECURSIVE SeqsUpTo(_, _)
SeqsUpTo(S, n) ==
  IF n = 0 THEN {<< >>}
  ELSE LET shorter == SeqsUpTo(S, n - 1)
       IN shorter \cup {Append(q, e) : q \in shorter, e \in S}

\* Requests are served one at a time: the next one is taken once the response
\* of the last one has been returned to its client.
NoResponse == Response("none", 0, "")
Idle == response = NoResponse

\* return jsonify(...): the response leaves the server.
ReturnResponse ==
  /\ ~Idle
  /\ response' = NoResponse
  /\ UNCHANGED << documents, signatures, uploads, signed_files, sessions >>

Next ==
  \/ Idle /\ \E u \in Users, form \in UploadForms :
               upload_document(u, form.file, form.dtype)
  \/ Idle /\ \E u \in Signers, data \in UploadedArtworks, form_name \in FormNames :
               upload_signature(u, data, form_name)
  \/ Idle /\ \E u \in Signers : ReplaceArtwork(u)
  \/ Idle /\ \E u \in Signers, id \in RequestIds :
               \E req \in PlacementsFor(id) : sign_document(u, id, req)
  \/ Idle /\ \E u \in Signers, batch \in SeqsUpTo(Entries, MaxBatch) :
               \E auto \in AutoModes(batch) : bulk_sign_documents(u, batch, auto)
  \/ Idle /\ \E id \in RequestIds : detect_document_signature_position(id)
  \/ Idle /\ \E ids \in SeqsUpTo(RequestIds, MaxBatch) :
               bulk_detect_signature_positions(ids)
  \/ Idle /\ \E id \in RequestIds : download_signed_document(id)
  \/ ReturnResponse

Spec == Init /\ [][Next]_vars

\* ---------------------------------------------------------------------------
\* Properties of signing, checked under Spec
\* ---------------------------------------------------------------------------
\* A step that answers a sign request: it sets the response and leaves the
\* signatures table alone.
SingleSignStep == signatures' = signatures /\ response'.op = "sign"
BulkSignStep ==
  signatures' = signatures /\ response'.op = "bulk_sign" /\ response'.code = 200
IsSuccessful(e) == e.list = "successful"
IsFailed(e) == e.list = "failed"
Ids(records) == [k \in DOMAIN records |-> records[k].id]
\* The documents whose status changes from pending to signed in a step.
NewlySigned ==
  {id \in DOMAIN documents :
     documents[id].status = "pending" /\ documents'[id].status = "signed"}

\* The entry k of the answered batch names a document that was signed before
\* the request or that an earlier entry of the batch signed.
SignedBeforeEntry(k) ==
  LET id == response'.request[k]
  IN /\ id \in DOMAIN documents
     /\ \/ documents[id].status = "signed"
        \/ \E j \in 1..(k - 1) :
             response'.log[j].id = id /\ IsSuccessful(response'.log[j])

C1_Step ==
  /\ \A id \in DOMAIN documents :
       documents[id].status = "signed" => documents'[id] = documents[id]
  /\ Len(signed_files') = Len(signed_files) + Cardinality(NewlySigned)
  /\ SubSeq(signed_files', 1, Len(signed_files)) = signed_files
  /\ SingleSignStep =>
       LET id == response'.request[1]
       IN (id \in DOMAIN documents /\ documents[id].status = "signed") =>
            /\ response'.code = 400
            /\ response'.error = "Document already signed"
            /\ documents' = documents
            /\ signed_files' = signed_files
  /\ BulkSignStep =>
       /\ \A k \in DOMAIN response'.request :
            SignedBeforeEntry(k) =>
              response'.log[k] = [id |-> response'.request[k], list |-> "failed",
                                  error |-> "Already signed"]
       /\ \A i, j \in DOMAIN response'.results.successful :
            i # j => response'.results.successful[i].id
                       # response'.results.successful[j].id
       /\ NewlySigned =
            {response'.results.successful[i].id
               : i \in DOMAIN response'.results.successful}

\* C1: a sign attempt on a document that is already signed (before the request,
\* or by an earlier entry of the same batch) is rejected: the single request is
\* answered "Document already signed", the batch entry is recorded as failed
\* with "Already signed"; no file is written for it and the row of the
\* document is left as it was.
C1_AlreadySignedRejected == [][C1_Step]_vars

\* A batch that names the same document twice: the first entry signs it, the
\* second is recorded as "Already signed", and one file was written.
C1_Witness ==
  /\ response.op = "bulk_sign" /\ response.code = 200
  /\ Len(response.log) = 2
  /\ response.log[1].id = response.log[2].id
  /\ IsSuccessful(response.log[1])
  /\ response.log[2].error = "Already signed"
  /\ Len(signed_files) = 1

\* The number of records of a list that carry the id.
CountId(records, id) == Cardinality({k \in DOMAIN records : records[k].id = id})

\* C2: a batch that passes the up-front checks yields for every entry exactly
\* one record, in successful or in failed, never both and never none; a failed
\* entry does not end the loop, and the entries that succeeded are signed when
\* the response is sent.
C2_OneRecordPerEntry ==
  (response.op = "bulk_sign" /\ response.code = 200) =>
    LET successful == response.results.successful
        failed == response.results.failed
    IN /\ Len(successful) + Len(failed) = Len(response.request)
       /\ \A id \in 1..(MaxDocs + 1) :
            CountId(successful, id) + CountId(failed, id)
              = Cardinality({k \in DOMAIN response.request : response.request[k] = id})
       /\ Len(response.log) = Len(response.request)
       /\ Ids(response.log) = response.request
       /\ Ids(SelectSeq(response.log, IsSuccessful)) = Ids(successful)
       /\ Ids(SelectSeq(response.log, IsFailed)) = Ids(failed)
       /\ \A k \in DOMAIN successful :
            documents[successful[k].id].status = "signed"

\* A batch of two documents: the first entry fails, the second is signed.
C2_Witness ==
  /\ response.op = "bulk_sign" /\ response.code = 200
  /\ Len(response.log) = 2
  /\ response.log[1].id # response.log[2].id
  /\ IsFailed(response.log[1])
  /\ IsSuccessful(response.log[2])
  /\ documents[response.log[2].id].status = "signed"

C3_Step ==
  \A u \in Signers :
    ( /\ signatures' = signatures
      /\ response'.op \in {"sign", "bulk_sign"}
      /\ response'.user = u
      /\ signatures[u].present
      /\ Sha256(signatures[u].data) # signatures[u].file_hash )
    => /\ documents' = documents
       /\ signed_files' = signed_files
       /\ response'.code # 200
       /\ response'.results = NoResults

\* C3: when the hash of the signature artwork differs from the stored hash, a
\* sign request (single or batch) is answered with an error and composites
\* nothing: no document changes and no file is written.
C3_IntegrityMismatchAborts == [][C3_Step]_vars

\* A batch naming a pending document was answered with the integrity error.
C3_Witness ==
  /\ response.op = "bulk_sign"
  /\ response.error = "Signature integrity check failed"
  /\ \E k \in DOMAIN response.request :
       /\ response.request[k] \in DOMAIN documents
       /\ documents[response.request[k]].status = "pending"
  /\ \E u \in Signers : Sha256(signatures[u].data) # signatures[u].file_hash

\* The placements of a single sign request.
RequestPlacements(req) == IF req.positions # << >> THEN req.positions ELSE req.position

C4_Step ==
  SingleSignStep =>
    LET id == response'.request[1]
        u == response'.user
        ps == RequestPlacements(response'.placement)
    IN ( /\ id \in DOMAIN documents
         /\ documents[id].status = "pending"
         /\ signatures[u].present
         /\ Sha256(signatures[u].data) = signatures[u].file_hash
         /\ uploads[documents[id].original_path].readable
         /\ \E k \in DOMAIN ps :
              PageIndexOk(uploads[documents[id].original_path], ps[k].page) )
       => /\ response'.code = 200
          /\ documents'[id].status = "signed"
          /\ documents'[id].signed_path \in DOMAIN signed_files'
          /\ documents'[id].signed_by = u
          /\ documents'[id].signed_at # 0
          /\ documents'[id].signature_position = ps

\* C4: a single-document sign request on a pending document, by a user whose
\* signature passes the integrity check, with a placement whose page is in the
\* document, ends with the document signed (signed_path, signed_by, signed_at
\* and the placements recorded) and is not answered with an error.
C4_SingleSignSucceeds == [][C4_Step]_vars

CompositingErrors == {"PdfReadError", "Page does not exist", "IndexError"}

\* The written file of a signed document holds every overlay of the request.
FileComplete(document) ==
  LET f == signed_files[document.signed_path]
  IN \A i \in DOMAIN f.overlays :
       Len(f.overlays[i]) =
         IF document.document_type = "f2f"
         THEN (IF i = Len(f.pages) THEN 1 ELSE 0)
         ELSE Cardinality({k \in DOMAIN document.signature_position :
                             document.signature_position[k].page = i - 1})

\* C5: when compositing fails, the failure is reported (an error response, or
\* a record in failed), no output file exists for the attempt and the document
\* is not signed: every file of the signed folder is the complete output of
\* the one signed document that points to it.
C5_NoFileOnCompositingFailure ==
  /\ \A id \in DOMAIN documents :
       /\ documents[id].status = "signed" <=> documents[id].signed_path # 0
       /\ documents[id].status = "signed" =>
            /\ documents[id].signed_path \in DOMAIN signed_files
            /\ FileComplete(documents[id])
  /\ \A p \in DOMAIN signed_files :
       Cardinality({id \in DOMAIN documents : documents[id].signed_path = p}) = 1
  /\ (response.op = "bulk_sign" /\ response.code = 200) =>
       \A k \in DOMAIN response.log :
         ( /\ response.log[k].error \in CompositingErrors
           /\ \A j \in DOMAIN response.log :
                response.log[j].id = response.log[k].id => IsFailed(response.log[j]) )
         => /\ documents[response.log[k].id].status = "pending"
            /\ documents[response.log[k].id].signed_path = 0
            /\ \E j \in DOMAIN response.results.failed :
                 response.results.failed[j] = [id |-> response.log[k].id,
                                               error |-> response.log[k].error]
  /\ (response.op = "sign" /\ response.code = 500) =>
       documents[response.request[1]].status = "pending"

\* A batch entry with two positions, the second on a page the document does
\* not have: the entry is recorded as failed, the document stays pending and
\* the signed folder holds no file.
C5_Witness ==
  /\ response.op = "bulk_sign" /\ response.code = 200
  /\ \E k \in DOMAIN response.log :
       /\ response.log[k].error = "IndexError"
       /\ documents[response.log[k].id].status = "pending"
  /\ signed_files = << >>

\* The signed F2F documents, and the file each one was signed into.
SignedF2F ==
  {id \in DOMAIN documents :
     documents[id].status = "signed" /\ documents[id].document_type = "f2f"}
SignedFile(id) == signed_files[documents[id].signed_path]
SourceFile(id) == uploads[documents[id].original_path]

\* C19: a signed F2F document of N pages carries exactly one audit box, on
\* page N - 1, and its other pages are as uploaded, whatever placements the
\* request gave; the number of signatures reported for it is 1.
C19_F2FOneBoxOnLastPage ==
  /\ \A id \in SignedF2F :
       LET f == SignedFile(id)
           n == Len(SourceFile(id).pages)
       IN /\ f.pages = SourceFile(id).pages
          /\ Len(f.overlays[n]) = 1
          /\ f.overlays[n][1].mode = "f2f"
          /\ \A i \in 1..(n - 1) : f.overlays[i] = << >>
  /\ \A k \in DOMAIN response.results.successful :
       response.results.successful[k].is_f2f =>
         response.results.successful[k].num_signatures = 1
  /\ (response.op = "sign" /\ response.code = 200
      /\ documents[response.request[1]].document_type = "f2f") =>
       response.num_signatures = 1

\* A two-page F2F document signed by a request that gave two placements, the
\* first of them on page 0: one box, on page 1, reported as one signature.
C19_Witness ==
  \E id \in SignedF2F :
    /\ Len(SourceFile(id).pages) = 2
    /\ Len(documents[id].signature_position) = 2
    /\ documents[id].signature_position[1].page = 0
    /\ SignedFile(id).overlays[1] = << >>
    /\ Len(SignedFile(id).overlays[2]) = 1
    /\ \E k \in DOMAIN response.results.successful :
         /\ response.results.successful[k].id = id
         /\ response.results.successful[k].num_signatures = 1

\* The results the planner matching the type of a document can return for it.
Planner(id) ==
  IF documents[id].document_type = "f2f"
  THEN detect_f2f_signature_position(uploads[documents[id].original_path])
  ELSE {detect_all_signature_positions(uploads[documents[id].original_path])}
\* The placements an entry supplies.
Supplied(e) == IF e.positions # << >> THEN e.positions ELSE e.position
\* The positions of the overlays of the file a step signed document id into.
CompositedPositions(id) ==
  LET f == signed_files'[documents'[id].signed_path]
  IN UNION { {f.overlays[i][k].position : k \in DOMAIN f.overlays[i]}
             : i \in DOMAIN f.overlays }
\* Entry k was composited with exactly the given placements (the first of
\* them for an F2F document), or failed in the compositor.
UsedOrFailed(k, positions) ==
  LET id == response'.request[k]
  IN IF IsSuccessful(response'.log[k])
     THEN /\ documents'[id].signature_position = positions
          /\ CompositedPositions(id) =
               IF documents[id].document_type = "f2f" THEN {positions[1]}
               ELSE {positions[j] : j \in DOMAIN positions}
     ELSE response'.log[k].error \in CompositingErrors

C20_Step ==
  BulkSignStep =>
    \A k \in DOMAIN response'.entries :
      LET e == response'.entries[k]
          id == e.id
          failed(error) ==
            response'.log[k] = [id |-> id, list |-> "failed", error |-> error]
      IN (id \in DOMAIN documents /\ ~SignedBeforeEntry(k)) =>
           IF e.position = << >> /\ e.positions = << >>
           THEN IF response'.auto_mode
                THEN \E d \in Planner(id) :
                       IF d.found /\ d.positions # << >>
                       THEN UsedOrFailed(k, d.positions)
                       ELSE failed("Could not detect signature positions")
                ELSE failed("No positions provided")
           ELSE UsedOrFailed(k, Supplied(e))

\* C20: a pending batch entry without position and positions is, under
\* auto_mode, signed with the placements of the planner matching the document
\* type, or fails with 'Could not detect signature positions' when the planner
\* returns none; without auto_mode it fails with 'No positions provided'.  An
\* entry that supplies placements is signed with those.
C20_AutoModePlans == [][C20_Step]_vars

\* An auto_mode batch whose first entry has no position and was signed with
\* the placement the planner found.
C20_Witness ==
  /\ response.op = "bulk_sign" /\ response.code = 200 /\ response.auto_mode
  /\ Len(response.entries) >= 1
  /\ response.entries[1].position = << >> /\ response.entries[1].positions = << >>
  /\ IsSuccessful(response.log[1])
  /\ documents[response.entries[1].id].signature_position[1].method
       \in {"pdfplumber_blank_space", "f2f_last_page_blank_space"}

C21_Step ==
  /\ response'.op \in {"detect", "bulk_detect", "sign", "bulk_sign"} =>
       /\ uploads' = uploads
       /\ \A id \in DOMAIN documents :
            documents'[id].original_path = documents[id].original_path
       /\ SubSeq(signed_files', 1, Len(signed_files)) = signed_files
  /\ response'.op \in {"detect", "bulk_detect"} =>
       /\ documents' = documents
       /\ signed_files' = signed_files

\* C21: no detection and no signing request, successful or failed, changes or
\* removes an uploaded file: the file at original_path stays as uploaded, the
\* signed output goes to a new file of the signed folder, and a detection
\* request changes no document row and writes no file.
C21_SourceNeverModified == [][C21_Step]_vars

\* A document was signed: the signed file carries an overlay and the uploaded
\* file it was made from carries none.
C21_Witness ==
  /\ response.op = "bulk_sign"
  /\ \E id \in DOMAIN documents :
       /\ documents[id].status = "signed"
       /\ \E i \in DOMAIN SignedFile(id).overlays : SignedFile(id).overlays[i] # << >>
       /\ SourceFile(id).overlays = NoOverlays(SourceFile(id).pages)

\* The words, lines and drawn rectangles of a page.
PageObstacles(page) ==
  {page.words[i] : i \in DOMAIN page.words}
    \cup {page.lines[i] : i \in DOMAIN page.lines}
    \cup {page.rects[i] : i \in DOMAIN page.rects}
\* The rectangle with top-left corner (x, top) lies at least the padding
\* inside the page edges and meets no obstacle of the page grown by the padding.
RectangleClear(page, x, top, width, height) ==
  /\ x >= PADDING /\ top >= PADDING
  /\ x + width <= page.width - PADDING
  /\ top + height <= page.height - PADDING
  /\ \A o \in PageObstacles(page) :
       \/ x + width < o.x0 - PADDING \/ o.x1 + PADDING < x
       \/ top + height < o.top - PADDING \/ o.bottom + PADDING < top

\* C26: the audit box drawn for an F2F document at a placement that F2F
\* detection returned with method f2f_last_page_blank_space (width
\* max(sigWidth + 40, 220) + 60, height sigHeight + 105) stays inside the page
\* margins and overlaps no padded obstacle of the last page.
C26_AuditBoxInVerifiedSpace ==
  \A id \in SignedF2F :
    LET last == SourceFile(id).pages[Len(SourceFile(id).pages)]
        o == SignedFile(id).overlays[Len(SourceFile(id).pages)][1]
    IN ("method" \in DOMAIN o.position
        /\ o.position.method = "f2f_last_page_blank_space") =>
         RectangleClear(last, o.drawn.box.x,
                        last.height - (o.drawn.box.y + o.drawn.box.height),
                        o.drawn.box.width, o.drawn.box.height)

\* C29: the status of a document only moves from pending to signed and never
\* back; a signed document has signed_path, signed_by and signed_at set and a
\* pending document has none of them; a download is served exactly for the
\* signed documents.
RecordConsistent(document) ==
  /\ document.status \in {"pending", "signed"}
  /\ document.status = "signed" =>
       /\ document.signed_path # 0
       /\ document.signed_by # "null"
       /\ document.signed_at # 0
  /\ document.status = "pending" =>
       /\ document.signed_path = 0
       /\ document.signed_by = "null"
       /\ document.signed_at = 0

C29_Step ==
  /\ \A id \in DOMAIN documents : RecordConsistent(documents[id])
  /\ \A id \in DOMAIN documents' : RecordConsistent(documents'[id])
  /\ \A id \in DOMAIN documents :
       /\ id \in DOMAIN documents'
       /\ documents[id].status = "signed" => documents'[id].status = "signed"
  /\ (response'.op = "download" /\ response' # response) =>
       LET doc_id == response'.request[1]
       IN response'.code = 200 <=>
            (doc_id \in DOMAIN documents /\ documents[doc_id].status = "signed")

C29_StatusMonotone == [][C29_Step]_vars

\* The download of a signed document was served while another is pending.
C29_Witness ==
  /\ response.op = "download" /\ response.code = 200
  /\ \E id \in DOMAIN documents : documents[id].status = "pending"
  /\ \E id \in DOMAIN documents :
       documents[id].status = "signed" /\ response.request = << id >>

\* C30: Standard compositing, with a signer name, of the unchanged placement
\* (x, y, 120, 40) that generic detection returned from a valid obstacle-free
\* candidate draws the image and the three text lines inside the rectangle the
\* detector verified, [x, x + 120] x [y, y + 70] from the top-left corner: the
\* render clamps leave the position unchanged and the last line ends above
\* y + 70.
InsideVerified(page, position, r_x, r_y, r_width, r_top) ==
  /\ FLeq(Float(position.x), r_x)
  /\ FLeq(FAdd(r_x, r_width), Float(position.x + SIG_WIDTH))
  /\ FLeq(Float(page.height - position.y - (SIG_HEIGHT + TEXT_HEIGHT)), r_y)
  /\ FLeq(r_top, Float(page.height - position.y))

DrawnInsideVerified(page, o) ==
  LET d == draw_signature_with_text(o.drawn.x, o.drawn.y, o.drawn.width,
                                    o.drawn.height, o.signer_name)
  IN /\ o.drawn.x = Float(o.position.x)
     /\ o.drawn.y = FSub(Float(page.height - o.position.y), o.drawn.height)
     /\ InsideVerified(page, o.position, d.image.x, d.image.y, d.image.width,
                       FAdd(d.image.y, d.image.height))
     /\ Len(d.lines) = 3
     /\ \A k \in DOMAIN d.lines :
          InsideVerified(page, o.position, d.lines[k].x,
                         FSub(d.lines[k].y, FontDescent), d.lines[k].width,
                         FAdd(d.lines[k].y, FontAscent))

C30_DrawnInsideVerifiedRectangle ==
  \A id \in DOMAIN documents :
    (/\ documents[id].status = "signed"
     /\ documents[id].document_type # "f2f"
     /\ Len(documents[id].signature_position) = 1) =>
      LET position == documents[id].signature_position[1]
          i == (position.page % Len(SourceFile(id).pages)) + 1
          page == SourceFile(id).pages[i]
      IN ("method" \in DOMAIN position
          /\ RectangleClear(page, position.x, position.y, SIG_WIDTH,
                            SIG_HEIGHT + TEXT_HEIGHT)) =>
           /\ Len(SignedFile(id).overlays[i]) = 1
           /\ SignedFile(id).overlays[i][1].position = position
           /\ SignedFile(id).overlays[i][1].signer_name # ""
           /\ DrawnInsideVerified(page, SignedFile(id).overlays[i][1])

\* ---------------------------------------------------------------------------
\* Detection on every document of up to MaxPages pages over the layouts: one
\* document is uploaded and the detection handlers are applied to it.
\* ---------------------------------------------------------------------------
AllFiles ==
  {Upload(TRUE, ps, m) : ps \in PageSeqs(MaxPages), m \in Metadata}
    \cup {Upload(FALSE, << >>, "none")}

UploadOne ==
  /\ Idle
  /\ documents = << >>
  /\ \E file \in AllFiles, dtype \in DocumentTypes :
       upload_document("admin", file, dtype)

NextDetect ==
  \/ UploadOne
  \/ Idle /\ \E id \in RequestIds : detect_document_signature_position(id)
  \/ Idle /\ \E ids \in SeqsUpTo(RequestIds, MaxBatch) :
               bulk_detect_signature_positions(ids)
  \/ ReturnResponse

SpecDetect == Init /\ [][NextDetect]_vars

\* ---------------------------------------------------------------------------
\* Properties of detection, checked under SpecDetect
\* ---------------------------------------------------------------------------
\* The detections of the last response and the file each one was run on.
Detections == {response.detections[k] : k \in DOMAIN response.detections}
DetectedFile(d) == uploads[documents[d.document_id].original_path]
GenericDetections == {d \in Detections : ~d.is_f2f}
F2FDetections == {d \in Detections : d.is_f2f}
\* The 0-based indices of the pages of a file that hold an anchor line.
MatchingPages(pdf) ==
  {i \in 0..(Len(pdf.pages) - 1) : TextMatchesPattern(pdf.pages[i + 1])}
PlacementPages(d) == {d.positions[k].page : k \in DOMAIN d.positions}

\* C6: a generic detection returns at most as many placements as the document
\* has pages, and no two of its placements are on the same page.
C6_OnePlacementPerPage ==
  \A d \in GenericDetections :
    /\ Len(d.positions) <= Len(DetectedFile(d).pages)
    /\ \A i, j \in DOMAIN d.positions :
         i # j => d.positions[i].page # d.positions[j].page

\* A two-page document gets two placements, one per page.
C6_Witness ==
  \E d \in GenericDetections :
    /\ Len(DetectedFile(d).pages) = 2
    /\ Len(d.positions) = 2
    /\ PlacementPages(d) = {0, 1}

\* C7: F2F detection on a readable document of N >= 1 pages always reports
\* found with exactly one placement, on page N - 1, and names no keyword.
C7_F2FAlwaysLastPage ==
  \A d \in F2FDetections :
    LET pdf == DetectedFile(d)
    IN (pdf.readable /\ Len(pdf.pages) >= 1) =>
         /\ d.found
         /\ Len(d.positions) = 1
         /\ d.positions[1].page = Len(pdf.pages) - 1
         /\ d.positions[1].keyword = "null"

\* A two-page F2F document whose first page holds an anchor line and whose
\* last page has no free rectangle is placed on its last page.
C7_Witness ==
  \E d \in F2FDetections :
    /\ Len(DetectedFile(d).pages) = 2
    /\ MatchingPages(DetectedFile(d)) = {0}
    /\ ~BlankSpaceOn[DetectedFile(d).pages[2]].found
    /\ d.found /\ Len(d.positions) = 1 /\ d.positions[1].page = 1

\* C8: a generic detection on a readable document of N >= 1 pages none of
\* which holds an anchor line reports found with exactly one placement, on
\* page N - 1, of low confidence and with a null keyword.
C8_FallbackAlwaysPlaces ==
  \A d \in GenericDetections :
    LET pdf == DetectedFile(d)
    IN (pdf.readable /\ Len(pdf.pages) >= 1 /\ MatchingPages(pdf) = {}) =>
         /\ d.found
         /\ Len(d.positions) = 1
         /\ d.positions[1].page = Len(pdf.pages) - 1
         /\ d.positions[1].confidence = "low"
         /\ d.positions[1].keyword = "null"

\* C9: when pages of a readable document hold an anchor line, a generic
\* detection reports found with exactly one placement for each such page and
\* none for any other, each of high confidence with a keyword, in strictly
\* ascending page order.
C9_OnePlacementPerAnchorPage ==
  \A d \in GenericDetections :
    LET pdf == DetectedFile(d)
    IN (pdf.readable /\ MatchingPages(pdf) # {}) =>
         /\ d.found
         /\ PlacementPages(d) = MatchingPages(pdf)
         /\ Len(d.positions) = Cardinality(MatchingPages(pdf))
         /\ \A k \in DOMAIN d.positions :
              /\ d.positions[k].confidence = "high"
              /\ d.positions[k].keyword # "null"
              /\ k > 1 => d.positions[k - 1].page < d.positions[k].page

\* C10: every placement a detection returns lies inside the rectangle of its
\* page: 0 <= x, x + width <= page width, 0 <= y, y + height <= page height.
C10_PlacementInsidePage ==
  \A d \in Detections :
    \A k \in DOMAIN d.positions :
      LET p == d.positions[k]
          page == DetectedFile(d).pages[p.page + 1]
      IN /\ 0 <= p.x /\ p.x + p.width <= page.width
         /\ 0 <= p.y /\ p.y + p.height <= page.height

\* C11: detection is deterministic: two runs on the same unmodified document,
\* here the two entries of one bulk detection that names the document twice,
\* return identical placement lists, for generic and for F2F documents.
C11_DetectionDeterministic ==
  \A a, b \in Detections :
    a.document_id = b.document_id => a.positions = b.positions

\* ---------------------------------------------------------------------------
\* The compositors of pdf_signer.py applied to stored files: SpecCompose
\* ---------------------------------------------------------------------------
\* The files, artworks, signer names and positions the compositors are given.
ComposeFiles ==
  { Upload(TRUE, << PgBlank >>, "meta"),
    Upload(TRUE, << PgBlank, PgTinyAnchor >>, "meta"),
    Upload(TRUE, << PgTinyAnchor, PgBlank >>, "none"),
    Upload(FALSE, << >>, "none") }
ComposeArtworks == {"artwork", "other artwork", "tall artwork", "square artwork"}
ComposeNames == {"", "dr"}
ComposePositions ==
  { Position(pg, x, y, w, h) : pg \in {0 - 3, 0 - 1, 0, 1, 2}, x \in {0 - 10, 20, 250},
                               y \in {0 - 10, 60, 190}, w \in {60, 120, 300},
                               h \in {40, 60, 250} }
ComposeMultiPositions ==
  { Position(pg, 20, y, 120, 40) : pg \in {0 - 1, 0, 1, 2}, y \in {60, 190} }
MaxEntries == 3

\* One stored file to composite on.
ComposeUpload ==
  /\ Idle
  /\ documents = << >>
  /\ \E file \in ComposeFiles, dtype \in DocumentTypes :
       upload_document("admin", file, dtype)

\* A compositor call with output_path set: the file exists only when the
\* compositor returned.
Composed(op, out, positions, signer_name) ==
  /\ signed_files' = IF out.ok THEN Append(signed_files, out.pdf) ELSE signed_files
  /\ response' = [Response(op, IF out.ok THEN 200 ELSE 500, out.error) EXCEPT
                    !.placement = [position |-> << >>, positions |-> positions],
                    !.user = signer_name]
  /\ UNCHANGED << documents, signatures, uploads, sessions >>

ComposeStandard(doc_id, signature_data, position, signer_name) ==
  /\ signed_files = << >>
  /\ Composed("add_signature_to_pdf",
              add_signature_to_pdf(uploads[documents[doc_id].original_path],
                                   signature_data, position, signer_name),
              << position >>, signer_name)

ComposeF2F(doc_id, signature_data, position, signer_name) ==
  /\ signed_files = << >>
  /\ Composed("add_f2f_signature_to_pdf",
              add_f2f_signature_to_pdf(uploads[documents[doc_id].original_path],
                                       signature_data, position, signer_name),
              << position >>, signer_name)

ComposeMultiple(doc_id, signature_data, positions, signer_name) ==
  /\ signed_files = << >>
  /\ Composed("add_multiple_signatures",
              add_multiple_signatures(uploads[documents[doc_id].original_path],
                                      signature_data, positions, signer_name),
              positions, signer_name)

NextCompose ==
  \/ ComposeUpload
  \/ Idle /\ \E id \in DOMAIN documents, data \in ComposeArtworks,
                position \in ComposePositions, name \in ComposeNames :
               ComposeStandard(id, data, position, name)
  \/ Idle /\ \E id \in DOMAIN documents, data \in ComposeArtworks,
                position \in ComposePositions, name \in ComposeNames :
               ComposeF2F(id, data, position, name)
  \/ Idle /\ \E id \in DOMAIN documents, data \in UploadedArtworks,
                positions \in SeqsUpTo(ComposeMultiPositions, MaxEntries),
                name \in ComposeNames :
               ComposeMultiple(id, data, positions, name)
  \/ ReturnResponse

SpecCompose == Init /\ [][NextCompose]_vars

\* ---------------------------------------------------------------------------
\* Properties of compositing, checked under SpecCompose
\* ---------------------------------------------------------------------------
\* The source file and the output of the compositor call, when it returned.
ComposeSource == uploads[1]
ComposeOutput == signed_files[1]
ComposedBy(op) == response.op = op /\ response.code = 200 /\ Len(signed_files) = 1
\* The overlays of the output, over all its pages.
OutputOverlays ==
  UNION { {ComposeOutput.overlays[i][k] : k \in DOMAIN ComposeOutput.overlays[i]}
          : i \in DOMAIN ComposeOutput.overlays }

\* C12: when add_signature_to_pdf is given a box (w, h) that differs from the
\* intrinsic size (iw, ih) of the image, the size it draws keeps the aspect
\* ratio of the image (w' * ih = h' * iw) and fits the box (w' <= w, h' <= h).
C12_AspectPreserved ==
  ComposedBy("add_signature_to_pdf") =>
    \A o \in OutputOverlays :
      LET image == ImageOpen(o.artwork)
          w == o.drawn.width
          h == o.drawn.height
      IN (o.position.width # image.width \/ o.position.height # image.height) =>
           /\ w.n * image.height * h.d = h.n * image.width * w.d
           /\ FLeq(w, Float(o.position.width))
           /\ FLeq(h, Float(o.position.height))

\* The 300x100 image at a requested box of 120x60 is drawn 120x40.
C12_Witness ==
  /\ ComposedBy("add_signature_to_pdf")
  /\ \E o \in OutputOverlays :
       /\ ImageOpen(o.artwork) = [width |-> 300, height |-> 100]
       /\ o.position.width = 120 /\ o.position.height = 60
       /\ o.drawn.width = Float(120) /\ o.drawn.height = Float(40)

\* The overlays of the output, each with the page it was merged into.
PlacedOverlays ==
  UNION { {[page |-> ComposeOutput.pages[i], overlay |-> ComposeOutput.overlays[i][k]]
             : k \in DOMAIN ComposeOutput.overlays[i]}
          : i \in DOMAIN ComposeOutput.overlays }
\* v clamped into [lo, hi], for lo <= hi.
Clamped(v, lo, hi) == IF FLess(v, lo) THEN lo ELSE IF FLess(hi, v) THEN hi ELSE v
\* pageHeight - y - drawnHeight of a placed overlay.
FlippedY(po) ==
  FSub(FSub(Float(po.page.height), Float(po.overlay.position.y)), po.overlay.drawn.height)

\* C13: add_signature_to_pdf renders at y_render = pageHeight - y - drawnHeight
\* clamped into [reservedBottomMargin, pageHeight - drawnHeight] and at x
\* clamped into [0, pageWidth - drawnWidth], with a reserved margin of 30 when
\* a signer name is drawn and 0 otherwise, on every page at least as large as
\* the drawn box plus the reserved margin.
C13_RenderPositionClamped ==
  ComposedBy("add_signature_to_pdf") =>
    \A po \in PlacedOverlays :
      LET o == po.overlay
          margin == Float(IF o.signer_name # "" THEN 30 ELSE 0)
          top == FSub(Float(po.page.height), o.drawn.height)
          right == FSub(Float(po.page.width), o.drawn.width)
      IN (FLeq(margin, top) /\ FLeq(Float(0), right)) =>
           /\ o.drawn.y = Clamped(FlippedY(po), margin, top)
           /\ o.drawn.x = Clamped(Float(o.position.x), Float(0), right)
           /\ FLeq(margin, o.drawn.y) /\ FLeq(o.drawn.y, top)
           /\ FLeq(Float(0), o.drawn.x) /\ FLeq(o.drawn.x, right)

\* A placement near the bottom of the page, with a signer name: the image is
\* raised to the reserved margin of 30.
C13_Witness ==
  /\ ComposedBy("add_signature_to_pdf")
  /\ \E po \in PlacedOverlays :
       /\ po.overlay.signer_name # ""
       /\ FLess(FlippedY(po), Float(30))
       /\ po.overlay.drawn.y = Float(30)
       /\ FLeq(FAdd(po.overlay.drawn.height, Float(30)), Float(po.page.height))

\* r, a rectangle with integer corner and size, lies inside the page.
InsidePage(r, page) ==
  /\ 0 <= r.x /\ r.x + r.width <= page.width
  /\ 0 <= r.y /\ r.y + r.height <= page.height

\* C14: on a page large enough to contain the audit box, everything that
\* add_f2f_signature_to_pdf draws lies inside the page: the box of width
\* max(sigWidth + 40, 220) + 60 and height sigHeight + 105, every text line,
\* the signature image and the glyph.
C14_AuditBoxInsidePage ==
  ComposedBy("add_f2f_signature_to_pdf") =>
    \A po \in PlacedOverlays :
      LET d == po.overlay.drawn
      IN (d.box.width <= po.page.width /\ d.box.height <= po.page.height) =>
           /\ d.box.width = Max2(po.overlay.position.width + 40, 220) + 60
           /\ d.box.height = po.overlay.position.height + 105
           /\ InsidePage(d.box, po.page)
           /\ InsidePage(d.image, po.page)
           /\ \A k \in DOMAIN d.baselines :
                0 <= d.baselines[k] /\ d.baselines[k] <= po.page.height
           /\ FLeq(Float(0), d.glyph.x) /\ FLeq(Float(0), d.glyph.y)
           /\ FLeq(FAdd(d.glyph.x, d.glyph.width), Float(po.page.width))
           /\ FLeq(FAdd(d.glyph.y, d.glyph.height), Float(po.page.height))

\* The positions and the signer name of the compositor call.
ComposePositionsGiven == response.placement.positions
\* The document after the first k entries of the add_multiple_signatures call.
MultiPrefix(k) ==
  add_multiple_signatures(ComposeSource, "artwork",
                          SubSeq(ComposePositionsGiven, 1, k), response.user).pdf
\* after is before with one more overlay on the page of index page_num, if the
\* document has such a page, and with every other page as it was.
StepFrame(before, after, page_num) ==
  /\ after.pages = before.pages
  /\ \A i \in 1..Len(before.pages) :
       IF i - 1 = page_num
       THEN /\ Len(after.overlays[i]) = Len(before.overlays[i]) + 1
            /\ SubSeq(after.overlays[i], 1, Len(before.overlays[i])) = before.overlays[i]
       ELSE after.overlays[i] = before.overlays[i]

C16_MetadataCarriedForward ==
  (\/ ComposedBy("add_signature_to_pdf")
   \/ ComposedBy("add_f2f_signature_to_pdf")
   \/ ComposedBy("add_multiple_signatures") /\ Len(ComposePositionsGiven) >= 1) =>
    ComposeOutput.metadata = ComposeSource.metadata

\* The entries of the call that target the page of 0-based index p, in order.
EntriesOn(p) == SelectSeq(ComposePositionsGiven, LAMBDA e : e.page = p)
\* The positions of the overlays a page of the output carries, bottom first.
OverlayPositions(i) ==
  [k \in DOMAIN ComposeOutput.overlays[i] |-> ComposeOutput.overlays[i][k].position]
RECURSIVE OverlayCount(_)
OverlayCount(i) ==
  IF i = 0 THEN 0 ELSE Len(ComposeOutput.overlays[i]) + OverlayCount(i - 1)

\* C17: after add_multiple_signatures has applied its N entries, the output
\* holds all N overlays: every page carries exactly the overlays of the
\* entries that target it, in request order, and a page no entry targets
\* carries none.
C17_MultiAccumulates ==
  ComposedBy("add_multiple_signatures") =>
    /\ \A i \in DOMAIN ComposeOutput.overlays : OverlayPositions(i) = EntriesOn(i - 1)
    /\ OverlayCount(Len(ComposeOutput.pages)) = Len(ComposePositionsGiven)

\* Some placement of the call names a page index outside 0..N-1.
InvalidPageIndexGiven ==
  \E k \in DOMAIN ComposePositionsGiven :
    ComposePositionsGiven[k].page \notin 0..(Len(ComposeSource.pages) - 1)

\* C18: in Standard mode (add_signature_to_pdf and every entry of
\* add_multiple_signatures) a placement whose page index is not in 0..N-1,
\* at or above N or negative, makes the call fail: an error is raised, no
\* output file is written and the document stays pending.
C18_InvalidPageIndexFails ==
  (/\ response.op \in {"add_signature_to_pdf", "add_multiple_signatures"}
   /\ InvalidPageIndexGiven) =>
    /\ response.code = 500
    /\ signed_files = << >>
    /\ documents[1].status = "pending"

\* C28: signing a non-F2F document with one placement p gives the same
\* composited result (drawn size, render position, attestation text and
\* carried-over metadata) whether p is handled by add_signature_to_pdf or, as
\* the one-element list << p >>, by add_multiple_signatures.
C28_SinglePositionEquivalent ==
  (ComposedBy("add_signature_to_pdf") /\ documents[1].document_type # "f2f") =>
    \A o \in OutputOverlays :
      LET listed == add_multiple_signatures(ComposeSource, o.artwork,
                                            << o.position >>, o.signer_name)
      IN /\ listed.ok
         /\ listed.pdf.overlays = ComposeOutput.overlays
         /\ listed.pdf.metadata = ComposeOutput.metadata

\* ---------------------------------------------------------------------------
\* The two searches of signature_detector.py applied to pages: SpecSearch
\* ---------------------------------------------------------------------------
\* Drawn rectangles of a 500x300 page: over the bottom-left and bottom-right
\* quadrants, the middle-left and middle-right areas, the top and the centre.
SearchBlocks ==
  << Box(20, 200, 240, 290), Box(260, 200, 480, 290), Box(20, 100, 140, 180),
     Box(360, 100, 480, 180), Box(0, 0, 500, 60), Box(160, 70, 340, 190) >>
\* The blocks of the indices in sub, in the order of SearchBlocks.
RECURSIVE BlocksOf(_, _)
BlocksOf(sub, k) ==
  IF k > Len(SearchBlocks) THEN << >>
  ELSE (IF k \in sub THEN << SearchBlocks[k] >> ELSE << >>) \o BlocksOf(sub, k + 1)
\* A 520x300 page whose only free rectangle is 8 wide and lies between two
\* columns of the whole-page grid.
PgNarrowGap ==
  Page(520, 300, << >>, << >>,
       << Box(0, 280, 520, 300), Box(0, 0, 245, 300), Box(395, 0, 520, 300),
          Box(245, 0, 395, 170) >>)
BlockedPages ==
  {Page(500, 300, << >>, << >>, BlocksOf(sub, 1)) : sub \in SUBSET (1..Len(SearchBlocks))}
SearchPages == BlockedPages \cup PageLayouts \cup {PgNarrowGap}

Searched(op, page, kw, result) ==
  /\ response' = [Response(op, 200, "") EXCEPT
                    !.detections = << [page |-> page, kw |-> kw, result |-> result] >>]
  /\ UNCHANGED << documents, signatures, uploads, signed_files, sessions >>

\* blank_pos = find_blank_space_on_page(page, SIG_WIDTH, SIG_HEIGHT, avoid_center=True)
SearchBlank(page) ==
  Searched("find_blank_space_on_page", page, << >>,
           find_blank_space_on_page(page, SIG_WIDTH, SIG_HEIGHT, TRUE))

\* The corners (x0, top) of the anchor word of a 500x300 page: bottom left,
\* centre, top right, top left, and right of the centre.
AnchorSpots == {<< 20, 250 >>, << 220, 140 >>, << 400, 30 >>, << 20, 30 >>, << 300, 100 >>}
AnchorWord(spot) == Word("anchor", spot[1], spot[2], spot[1] + 50, spot[2] + 10)
AnchoredPages ==
  {Page(500, 300, << AnchorWord(spot) >>, << >>, BlocksOf(sub, 1))
     : spot \in AnchorSpots, sub \in SUBSET (1..Len(SearchBlocks))}
    \cup {Page(500, 300, << AnchorWord(spot) >>, << >>, << Box(0, 0, 500, 300) >>)
           : spot \in AnchorSpots}
    \cup {pg \in PageLayouts : KeywordWords(pg) # {}}

\* blank_pos = find_blank_space_near_keyword(page, word, words): the search
\* detection runs for the first word of a page that contains 'signature'.
SearchNear(page) ==
  Searched("find_blank_space_near_keyword", page, FirstKeywordWord(page),
           find_blank_space_near_keyword(page, FirstKeywordWord(page),
                                         SIG_WIDTH, SIG_HEIGHT))

NextSearch ==
  \/ Idle /\ \E page \in SearchPages : SearchBlank(page)
  \/ Idle /\ \E page \in AnchoredPages : SearchNear(page)
  \/ ReturnResponse

SpecSearch == Init /\ [][NextSearch]_vars

\* ---------------------------------------------------------------------------
\* Properties of the searches, checked under SpecSearch
\* ---------------------------------------------------------------------------
SearchedPage == response.detections[1].page
SearchedKeyword == response.detections[1].kw
SearchResult == response.detections[1].result
BlankSearched == response.op = "find_blank_space_on_page"
\* The grid candidates of scan b of the unanchored search (1..4 the bands,
\* 5 the whole page), as a set.
ScanSet(b) ==
  LET bands == BlankSpaceBands(SearchedPage, SIG_WIDTH, SIG_HEIGHT)
  IN {bands[b][k] : k \in DOMAIN bands[b]}
\* A candidate is valid: the required rectangle at it is inside the margins
\* and clear of every padded obstacle.  It is central: its centre is in the
\* exclusion zone.
Valid(c) == is_area_clear(SearchedPage, c.x, c.y, SIG_WIDTH, SIG_HEIGHT + TEXT_HEIGHT)
Central(c) ==
  is_in_center_area(c.x, c.y, SearchedPage.width, SearchedPage.height,
                    SIG_WIDTH, SIG_HEIGHT)
Good(c) == Valid(c) /\ ~Central(c)
\* c is scanned before d: bottom to top, then left to right.
ScannedBefore(c, d) == c.y > d.y \/ (c.y = d.y /\ c.x < d.x)
ResultPoint == [x |-> SearchResult.x, y |-> SearchResult.y]
\* The result is the first candidate of cands that is valid (and non-central
\* unless central ones are allowed).
FirstOf(cands, allow_central) ==
  /\ SearchResult.found
  /\ ResultPoint \in cands
  /\ Valid(ResultPoint) /\ (allow_central \/ ~Central(ResultPoint))
  /\ \A c \in cands :
       ScannedBefore(c, ResultPoint) => ~(Valid(c) /\ (allow_central \/ ~Central(c)))
GoodScans == {b \in 1..4 : \E c \in ScanSet(b) : Good(c)}

\* C22: find_blank_space_on_page returns the first valid non-central grid
\* candidate of the first band, in the order bottom-left, bottom-right,
\* mid-left, mid-right, that has one; with none in the bands, the first valid
\* non-central candidate of the whole-page scan; with none there, the first
\* valid (central) one; and None only if no grid candidate on the page is valid.
C22_BlankSearchOrder ==
  BlankSearched =>
    /\ GoodScans # {} =>
         FirstOf(ScanSet(CHOOSE b \in GoodScans : \A o \in GoodScans : b <= o), FALSE)
    /\ (GoodScans = {} /\ (\E c \in ScanSet(5) : Good(c))) => FirstOf(ScanSet(5), FALSE)
    /\ (GoodScans = {} /\ (\A c \in ScanSet(5) : ~Good(c))
                        /\ (\E c \in ScanSet(5) : Valid(c))) =>
         FirstOf(ScanSet(5), TRUE)
    /\ ~SearchResult.found => \A b \in 1..5 : \A c \in ScanSet(b) : ~Valid(c)

NearSearched == response.op = "find_blank_space_near_keyword"
\* The obstacles of the searched page: its words, lines and drawn rectangles.
Obstacles ==
  {SearchedPage.words[i] : i \in DOMAIN SearchedPage.words}
    \cup {SearchedPage.lines[i] : i \in DOMAIN SearchedPage.lines}
    \cup {SearchedPage.rects[i] : i \in DOMAIN SearchedPage.rects}
\* The rectangle of the given size at (x, y) lies at least the padding inside
\* the four page edges and meets no obstacle grown by the padding.
ClearRectangle(x, y, width, height) ==
  /\ x >= PADDING /\ y >= PADDING
  /\ x + width <= SearchedPage.width - PADDING
  /\ y + height <= SearchedPage.height - PADDING
  /\ \A o \in Obstacles :
       \/ x + width < o.x0 - PADDING \/ o.x1 + PADDING < x
       \/ y + height < o.top - PADDING \/ o.bottom + PADDING < y
\* The candidates the anchored search generated for the searched page.
GeneratedCandidates ==
  LET cands == KeywordCandidates(SearchedPage, SearchedKeyword, SIG_WIDTH, SIG_HEIGHT)
  IN {cands[k] : k \in DOMAIN cands}

\* C23: a position the unanchored search returns, and a position the anchored
\* search returns when some generated candidate is valid (so that it is not
\* its final fallback), is valid for the rectangle of signature width by
\* signature height plus text height: inside the padding margin of the page
\* and disjoint from every padded word, line and drawn rectangle.
C23_ReturnedPositionValid ==
  /\ (BlankSearched /\ SearchResult.found) =>
       ClearRectangle(SearchResult.x, SearchResult.y, SIG_WIDTH, SIG_HEIGHT + TEXT_HEIGHT)
  /\ (NearSearched /\ \E c \in GeneratedCandidates : Valid(c)) =>
       ClearRectangle(SearchResult.x, SearchResult.y, SIG_WIDTH, SIG_HEIGHT + TEXT_HEIGHT)

\* The anchored search returned a position on a page that has drawn
\* rectangles besides the anchor word.
C23_Witness ==
  /\ NearSearched
  /\ Len(SearchedPage.rects) >= 2
  /\ \E c \in GeneratedCandidates : Valid(c)
  /\ ClearRectangle(SearchResult.x, SearchResult.y, SIG_WIDTH, SIG_HEIGHT + TEXT_HEIGHT)

\* The score of a candidate, and its place in the generation order.
Score(c) == position_score(SearchedPage, SearchedKeyword, c.x, c.y, SIG_WIDTH, SIG_HEIGHT)
GeneratedAt(c) ==
  LET cands == KeywordCandidates(SearchedPage, SearchedKeyword, SIG_WIDTH, SIG_HEIGHT)
      at == {k \in DOMAIN cands : cands[k] = c}
  IN CHOOSE k \in at : \A j \in at : k <= j
\* The result is, among the candidates of S, one of minimum score and the
\* earliest generated of those.
BestOf(S) ==
  /\ ResultPoint \in S
  /\ \A c \in S :
       /\ ~ScoreLess(Score(c), Score(ResultPoint))
       /\ ~ScoreLess(Score(ResultPoint), Score(c)) => GeneratedAt(ResultPoint) <= GeneratedAt(c)
GoodCandidates == {c \in GeneratedCandidates : Good(c)}
ValidCandidates == {c \in GeneratedCandidates : Valid(c)}

\* C24: find_blank_space_near_keyword returns, among the generated candidates
\* that are valid and non-central, one of minimum score, the earliest
\* generated on ties; it returns a central candidate only if no generated
\* candidate is valid and non-central, and then the valid one of minimum score.
C24_MinimumScoreCandidate ==
  NearSearched =>
    /\ GoodCandidates # {} => BestOf(GoodCandidates)
    /\ (GoodCandidates = {} /\ ValidCandidates # {}) => BestOf(ValidCandidates)
    /\ Central(ResultPoint) => GoodCandidates = {}

\* The returned candidate is not the first valid non-central one generated:
\* an earlier one has a greater score.
C24_Witness ==
  /\ NearSearched
  /\ ResultPoint \in GoodCandidates
  /\ \E c \in GoodCandidates :
       /\ GeneratedAt(c) < GeneratedAt(ResultPoint)
       /\ ScoreLess(Score(ResultPoint), Score(c))

\* v brought into [lo, hi] as max(lo, min(v, hi)) does.
IntoMargins(v, lo, hi) == IF v > hi THEN Max2(lo, hi) ELSE Max2(lo, v)
\* The y directly above the anchor, and directly below it.
AboveAnchor == SearchedKeyword.top - (SIG_HEIGHT + TEXT_HEIGHT) - 5
BelowAnchor == SearchedKeyword.bottom + 5

RaceEntries ==
  { [id |-> 1, position |-> << >>, positions |-> << >>],
    [id |-> 1, position |-> << P0 >>, positions |-> << >>],
    [id |-> 1, position |-> << >>, positions |-> << P0, P1 >>] }

\* bulk_sign_documents up to the end of its loop (app.py 606-753).
BulkSignLoop(w, u, documents_to_sign, auto_mode) ==
  /\ sessions[w].pc = "idle"
  /\ UNCHANGED << documents, signatures, uploads >>
  /\ LET signature == signatures[u]
         reject(code, error) ==
           /\ response' = [Response("bulk_sign", code, error) EXCEPT
                             !.user = u,
                             !.request = RequestedIds(documents_to_sign),
                             !.entries = documents_to_sign,
                             !.auto_mode = auto_mode]
           /\ sessions' = [sessions EXCEPT ![w] =
                             [NoSession EXCEPT !.pc = "done", !.user = u,
                                               !.entries = documents_to_sign]]
           /\ UNCHANGED signed_files
     IN IF documents_to_sign = << >> THEN reject(400, "No documents provided")
        ELSE IF ~signature.present THEN reject(400, "No signature found")
        ELSE IF ~IntegrityOk(signature)
        THEN reject(500, "Signature integrity check failed")
        ELSE \E st \in BulkLoop([documents |-> documents, signed_files |-> signed_files,
                                 results |-> NoResults, log |-> << >>],
                                documents_to_sign, 1, u, auto_mode, signature) :
               /\ signed_files' = st.signed_files
               /\ sessions' = [sessions EXCEPT ![w] =
                     [pc |-> "commit", user |-> u, entries |-> documents_to_sign,
                      documents |-> st.documents,
                      dirty |-> {id \in DOMAIN documents :
                                   st.documents[id] # documents[id]},
                      results |-> st.results, log |-> st.log]]
               /\ UNCHANGED response

\* db.session.commit() and the response (app.py 755-766): the changed rows of
\* the session are written over the rows of the table.
BulkSignCommit(w) ==
  /\ sessions[w].pc = "commit"
  /\ documents' = [id \in DOMAIN documents |->
                     IF id \in sessions[w].dirty THEN sessions[w].documents[id]
                     ELSE documents[id]]
  /\ response' = [Response("bulk_sign", 200, "") EXCEPT
                    !.results = sessions[w].results, !.log = sessions[w].log,
                    !.user = sessions[w].user,
                    !.request = RequestedIds(sessions[w].entries),
                    !.entries = sessions[w].entries]
  /\ sessions' = [sessions EXCEPT ![w].pc = "done"]
  /\ UNCHANGED << signatures, uploads, signed_files >>

NextRace ==
  \/ \E form \in UploadForms : upload_document("admin", form.file, form.dtype)
  \/ \E u \in Signers, data \in UploadedArtworks : upload_signature(u, data, "")
  \/ \E u \in Signers, req \in PlacementsFor(1) : sign_document(u, 1, req)
  \/ \E w \in Workers, u \in Signers, doc_info \in RaceEntries, auto \in BOOLEAN :
       BulkSignLoop(w, u, << doc_info >>, auto)
  \/ \E w \in Workers : BulkSignCommit(w)

SpecRace == Init /\ [][NextRace]_vars

\* The workers whose request has recorded document id as signed.
SignedBy(id) ==
  { w \in Workers :
      /\ sessions[w].pc = "done"
      /\ \E k \in DOMAIN sessions[w].results.successful :
           sessions[w].results.successful[k].id = id }

\* C27: for any interleaving of two sign requests on the same pending
\* document at most one of them records the document as signed: the row of a
\* signed document (its signed_path and signed_by) is never written again, and
\* no two requests answer that they signed the same document.
C27_Step ==
  \A id \in DOMAIN documents :
    /\ documents[id].status = "signed" => documents'[id] = documents[id]
    /\ Cardinality(SignedBy(id)') <= 1

C27_SignedAtMostOnce == [][C27_Step]_vars

====
